---- MODULE Spec2Model ----
(***************************************************************************)
(* Model of the measurement engine of tommyds-1.0/benchmark.cc: the        *)
(* pseudo-random generator, the key-order constructor, the six-operation   *)
(* sequence over one dataset instance and the scan controller test().      *)
(*                                                                         *)
(* Keys are C "unsigned" (32 bit): a key is the pair <<hi, lo>> of its two *)
(* 16-bit halves.  SEED is a 64-bit unsigned: the tuple of its 8 bytes,    *)
(* least significant first.  All arithmetic keeps the C width.             *)
(***************************************************************************)
EXTENDS Integers, Sequences, FiniteSets, TLC

(***************************************************************************)
(* Bounds of the model (scaled-down program parameters).                   *)
(***************************************************************************)
\* largest dataset size measured (MAX of the source, 10000000, scaled)
MAX == 7
\* first dataset size of a sweep (b = 1000 in the source, scaled)
BASE == 4
\* numerator of the retry count (500000 in the source, scaled)
RETRY_NUM == 16
\* number of backends listed (DATA_MAX of the source, 12, scaled)
DATA_MAX == 3
\* largest number of dataset instances of one run that are measured under load
MaxSlow == 2

(***************************************************************************)
(* Program constants.                                                      *)
(***************************************************************************)
RETRY_MAX == 3
OPERATION_INSERT == 0
OPERATION_HIT == 1
OPERATION_MISS == 2
OPERATION_SIZE == 3
OPERATION_CHANGE == 4
OPERATION_REMOVE == 5
OPERATION_MAX == 6
ORDER_FORWARD == 0
ORDER_RANDOM == 1
ORDER_MAX == 2
TIME_MAX_NS == 1500
PAYLOAD == 16

\* the backends of the model: one tommy container whose teardown checks the
\* element count, containers whose teardown does not, and, last in the list
\* as in the source, one that is listed but not compiled in (judy)
DATA_HASHTABLE == 0
DATA_TREE == DATA_HASHTABLE + 1
DATA_JUDY == DATA_MAX - 1

\* COND/START bodies exist for the backend (USE_JUDY is undefined off Win32/x86)
Compiled(d) == d # DATA_JUDY
\* test_free compares the container's count with 0 for the tommy containers only
CountChecked(d) == d = DATA_HASHTABLE

(***************************************************************************)
(* 32-bit unsigned arithmetic on <<hi, lo>>.                               *)
(***************************************************************************)
W16 == 65536

\* k + d modulo 2^32, for a small d >= 0
U32Add(k, d) ==
  LET lo == k[2] + d
  IN  <<(k[1] + (lo \div W16)) % W16, lo % W16>>

\* k * m modulo 2^32, for a small m >= 0
U32Mul(k, m) ==
  LET lo == k[2] * m
  IN  <<(k[1] * m + (lo \div W16)) % W16, lo % W16>>

\* 0xffffffff / max, for a small max >= 1
U32MaxDiv(max) ==
  LET rh == 65535 % max
  IN  <<65535 \div max, (rh * W16 + 65535) \div max>>

(***************************************************************************)
(* 64-bit unsigned arithmetic on 8 bytes, least significant first.         *)
(***************************************************************************)
\* 6364136223846793005 = 0x5851F42D4C957F2D
LCG_A == <<45, 127, 149, 76, 45, 244, 81, 88>>
\* 1442695040888963407 = 0x14057B7EF767814F
LCG_C == <<79, 129, 103, 247, 126, 123, 5, 20>>

U64Zero == <<0, 0, 0, 0, 0, 0, 0, 0>>

RECURSIVE U64Col(_, _, _, _)
\* sum of x[n] * y[k+1-n] for n in 1..k: column k of the product x * y
U64Col(x, y, k, n) ==
  IF n = 0 THEN 0 ELSE x[n] * y[k + 1 - n] + U64Col(x, y, k, n - 1)

RECURSIVE U64MulAddFrom(_, _, _, _, _)
\* bytes k..8 of x * y + c modulo 2^64, given the carry into byte k
U64MulAddFrom(x, y, c, k, carry) ==
  IF k > 8 THEN <<>>
  ELSE LET t == U64Col(x, y, k, k) + c[k] + carry
       IN  <<t % 256>> \o U64MulAddFrom(x, y, c, k + 1, t \div 256)

\* SEED * 6364136223846793005 + 1442695040888963407 modulo 2^64
LcgStep(seed) == U64MulAddFrom(seed, LCG_A, LCG_C, 1, 0)

RECURSIVE U64MaxDivFrom(_, _, _)
\* bytes k..1 (returned least significant first) of 0xFFFFFFFFFFFFFFFF / max,
\* by long division from the most significant byte, rem the running remainder
U64MaxDivFrom(max, k, rem) ==
  IF k = 0 THEN <<>>
  ELSE LET cur == rem * 256 + 255
       IN  U64MaxDivFrom(max, k - 1, cur % max) \o <<cur \div max>>

\* 0xFFFFFFFFFFFFFFFF / max
U64MaxDiv(max) == U64MaxDivFrom(max, 8, 0)

RECURSIVE U64MulSmallFrom(_, _, _, _)
\* bytes k..9 of a * m (9 bytes: the product is not reduced modulo 2^64)
U64MulSmallFrom(x, m, k, carry) ==
  IF k > 8 THEN <<carry>>
  ELSE LET t == x[k] * m + carry
       IN  <<t % 256>> \o U64MulSmallFrom(x, m, k + 1, t \div 256)

RECURSIVE BytesLeqFrom(_, _, _)
\* x <= y for two byte strings of the same length, compared from byte k down
BytesLeqFrom(x, y, k) ==
  IF k = 0 THEN TRUE
  ELSE IF x[k] # y[k] THEN x[k] < y[k]
  ELSE BytesLeqFrom(x, y, k - 1)

\* SEED / divider where divider = 0xFFFFFFFFFFFFFFFF / max: the number of
\* multiples q * divider, q in 1..max, that are <= SEED.  The quotient never
\* exceeds max, because (max + 1) * divider > 0xFFFFFFFFFFFFFFFF for every
\* 32-bit max.
U64DivByDivider(seed, divider, max) ==
  Cardinality({q \in 1..max :
      BytesLeqFrom(U64MulSmallFrom(divider, q, 1, 0), seed \o <<0>>, 9)})

(***************************************************************************)
(* rnd(): returns <<r, SEED'>>.                                            *)
(***************************************************************************)
RECURSIVE rnd(_, _)
rnd(seed, max) ==
  LET divider == U64MaxDiv(max)
      next == LcgStep(seed)
      r == U64DivByDivider(next, divider, max)
  IN  IF r >= max THEN rnd(next, max) ELSE <<r, next>>

(***************************************************************************)
(* order_init()                                                            *)
(***************************************************************************)
\* SparseKey with consecutive keys: i
SparseKey_stride1(max, j) == <<0, j>>

\* FORWARD[i] in sparse mode: 0xffffffff / max * i
SparseKey(max, j) == U32Mul(U32MaxDiv(max), j)
\* DenseKey with consecutive keys: 0x80000000 + i
DenseKey_stride1(j) == U32Add(<<32768, 0>>, j)

\* FORWARD[i] in dense mode: 0x80000000 + i * 2
DenseKey(j) == U32Add(<<32768, 0>>, j * 2)

ForwardOrder(max, mode) ==
  [j \in 0..(max - 1) |-> IF mode # 0 THEN SparseKey(max, j) ELSE DenseKey(j)]

\* Swap with the saved element t never written back
Swap_lost(A, n, j) == [A EXCEPT ![n] = A[j]]

\* t = A[i]; A[i] = A[j]; A[j] = t
Swap(A, n, j) == [A EXCEPT ![n] = A[j], ![j] = A[n]]

RECURSIVE Shuffle(_, _, _, _)
\* the Fisher-Yates loop for(i=max-1;i>=0;--i), from index n on:
\* returns <<RAND0, RAND1, SEED>>
Shuffle(n, r0, r1, seed) ==
  IF n < 0 THEN <<r0, r1, seed>>
  ELSE LET d0 == rnd(seed, n + 1)
           d1 == rnd(d0[2], n + 1)
       IN  Shuffle(n - 1, Swap(r0, n, d0[1]), Swap(r1, n, d1[1]), d1[2])

\* returns <<FORWARD, RAND0, RAND1, SEED>>
order_init_result(max, mode, seed) ==
  LET fw == ForwardOrder(max, mode)
      sh == Shuffle(max - 1, fw, fw, seed)
  IN  <<fw, sh[1], sh[2], sh[3]>>

(***************************************************************************)
(* State.                                                                  *)
(***************************************************************************)
VARIABLES
  pc,             \* position of the single thread of control
  size, data, log, sparse,   \* the arguments of test()
  the_log,        \* result files are written
  b,              \* the double b, in thousandths
  the_max, retry, the_retry, the_data, the_order, the_operation,
  i,              \* the index of the START loop of the running pass
  SEED, FORWARD, RAND0, RAND1,
  OBJ,            \* the element storage: OBJ[h] is the value field of element h
  container,      \* the live elements of the backend: pairs <<key, h>>
  allocated,      \* a container and its element storage are allocated
  LOG, LAST,
  files,          \* files[<<order, operation>>]: the rows of dat_<order>_<operation>.lst
  CACHE,          \* the value of the touched bytes of the scratch buffer
  load, slow,     \* environment: the machine is idle or busy during the instance
  passes,         \* history: <<operation, iterations>> of the passes of this instance
  allocs, frees,  \* history: number of test_alloc and test_free calls of the run
  sizes,          \* history: the dataset sizes for which order_init was called
  instances,      \* history: <<retry, backend, order, passes run>> of the instances
                  \* torn down since the size was chosen
  orders_made,    \* history: number of order_init calls since the size was chosen
  argv,           \* the arguments of main(), without the program name
  main_i,         \* the loop variable i of main(): argv[main_i] is parsed next
  flag_data, flag_size, flag_log, flag_miss, flag_sparse,
  status,         \* the exit status of the process, "running" until it ends
  faults,         \* environment: number of defects and failures that happened
  timer_failed,   \* history: the platform on which a timer call failed, or "no"
  rnd_max,        \* the argument max of the rnd() call in progress
  rnd_r           \* the local r of rnd(): the bucket of the last attempt

main_vars == <<argv, main_i, flag_data, flag_size, flag_log, flag_miss,
               flag_sparse, status>>
fault_vars == <<faults, timer_failed>>
rnd_vars == <<rnd_max, rnd_r>>
cfg_vars == <<size, data, log, sparse, the_log, main_vars>>
scan_vars == <<b, the_max, retry, the_retry, the_data, the_order>>
inst_vars == <<the_operation, i, OBJ, container, allocated>>
order_vars == <<SEED, FORWARD, RAND0, RAND1>>
result_vars == <<LOG, LAST, files>>
env_vars == <<load, slow, fault_vars, rnd_vars>>
hist_vars == <<passes, allocs, frees, sizes, instances, orders_made>>
vars == <<pc, cfg_vars, scan_vars, inst_vars, order_vars, result_vars, CACHE,
          env_vars, hist_vars>>

Retries == 0..(RETRY_MAX - 1)
Datas == 0..(DATA_MAX - 1)
Orders == 0..(ORDER_MAX - 1)
Operations == 0..(OPERATION_MAX - 1)

\* a freed or never allocated array
NoArray == <<>>
\* the value field of an element that was never written
NoKey == <<-1, -1>>
\* the null pointer returned by a failed search
NotFound == -1

\* the double f = pow(10, 0.1), in thousandths
f == 1259

(***************************************************************************)
(* The backend adapter: a container of elements indexed by key.            *)
(***************************************************************************)
container_insert(c, key, h) == c \cup {<<key, h>>}

container_search(c, key) ==
  IF \E e \in c : e[1] = key
  THEN (CHOOSE e \in c : e[1] = key)[2]
  ELSE NotFound

container_remove(c, key, h) == c \ {<<key, h>>}

container_count(c) == Cardinality(c)

\* bytes held by the container for count elements
memory_usage(count) == count * PAYLOAD

(***************************************************************************)
(* The environment: the per-element time of a pass.                        *)
(***************************************************************************)
\* nanoseconds per element measured for a pass of operation op
PassNs(ld, op) == IF ld = "busy" THEN TIME_MAX_NS + op ELSE op + 1

\* nano() - the_time at stop(): the pass took PassNs per element, and a rest
\* that the division by the_max drops
Elapsed(ld, op, max) == PassNs(ld, op) * max + (max - 1)

(***************************************************************************)
(* Initial states.  Loaded: the globals of the program as loaded, and the   *)
(* locals of main() as initialized at lines 1816-1821.                      *)
(***************************************************************************)
\* the globals and the environment when the process starts, SEED apart
Globals ==
  /\ the_log = FALSE
  /\ b = 0
  /\ the_max = 0 /\ retry = 0 /\ the_retry = 0 /\ the_data = 0
  /\ the_order = 0 /\ the_operation = 0 /\ i = 0
  /\ FORWARD = NoArray /\ RAND0 = NoArray /\ RAND1 = NoArray
  /\ OBJ = NoArray /\ container = {} /\ allocated = FALSE
  /\ LOG = [c \in Retries \X Datas \X Orders \X Operations |-> 0]
  /\ LAST = [c \in Datas \X Orders |-> 0]
  /\ files = [c \in Orders \X Operations |-> <<>>]
  /\ CACHE = 0
  /\ load = "idle"
  /\ passes = <<>> /\ allocs = 0 /\ frees = 0 /\ sizes = <<>> /\ orders_made = 0
  /\ instances = {}
  /\ main_i = 1
  /\ flag_data = DATA_MAX /\ flag_size = 0 /\ flag_log = 0 /\ flag_miss = 0
  /\ flag_sparse = 0
  /\ status = "running"
  /\ faults = 0 /\ timer_failed = "no"

\* line 360: SEED = 0, and no rnd() call in progress
Loaded ==
  /\ Globals
  /\ SEED = U64Zero
  /\ rnd_max = 0 /\ rnd_r = <<0, 0, 0, 0>>

\* test() about to be called, with any arguments main() can pass
Init ==
  /\ pc = "test"
  /\ size \in 0..(MAX + 1)
  /\ data \in 0..DATA_MAX
  /\ log \in {0, 1}
  /\ sparse \in {0, 1}
  /\ argv = <<>>
  /\ slow = 0
  /\ Loaded

(***************************************************************************)
(* test(): the scan controller.                                            *)
(***************************************************************************)
\* the header row of a result file: "0", then the name of every listed backend
HeaderRow == <<0, [d \in Datas |-> d]>>

\* lines 1663-1687: the_log, the headers, the first dataset size
test_begin ==
  /\ pc = "test"
  /\ the_log' = ((size = 0 /\ data = DATA_MAX) \/ log # 0)
  /\ files' = IF the_log' THEN [c \in Orders \X Operations |-> <<HeaderRow>>]
              ELSE files
  /\ b' = 1000 * BASE
  /\ the_max' = IF size # 0 THEN size ELSE BASE
  /\ pc' = "while"
  /\ UNCHANGED <<size, data, log, sparse, main_vars, retry, the_retry, the_data,
                 the_order, inst_vars, order_vars, LOG, LAST, CACHE, env_vars,
                 hist_vars>>

\* RetryCount without the override of line 1698 for a pinned size
RetryCount_unpinned(max, pinned) ==
  LET r0 == RETRY_NUM \div max
      r1 == IF r0 < 1 THEN 1 ELSE r0
  IN  IF r1 > RETRY_MAX THEN RETRY_MAX ELSE r1

\* RetryCount without the limit RETRY_MAX of line 1696
RetryCount_nolimit(max, pinned) ==
  LET r0 == RETRY_NUM \div max
      r1 == IF r0 < 1 THEN 1 ELSE r0
  IN  IF pinned # 0 THEN 1 ELSE r1

\* the number of retries of a dataset size
RetryCount(max, pinned) ==
  LET r0 == RETRY_NUM \div max
      r1 == IF r0 < 1 THEN 1 ELSE r0
      r2 == IF r1 > RETRY_MAX THEN RETRY_MAX ELSE r1
  IN  IF pinned # 0 THEN 1 ELSE r2

\* while_test without the memset of LOG
while_test_nomemset ==
  /\ pc = "while"
  /\ IF the_max <= MAX
     THEN /\ retry' = RetryCount(the_max, size)
          /\ orders_made' = 0
          /\ instances' = {}
          /\ pc' = "order_init"
     ELSE /\ pc' = "done"
          /\ UNCHANGED <<retry, orders_made, instances>>
  /\ UNCHANGED <<cfg_vars, b, the_max, the_retry, the_data, the_order,
                 inst_vars, order_vars, result_vars, CACHE, env_vars,
                 passes, allocs, frees, sizes>>

\* lines 1689-1702: the loop test, the retry count, memset(LOG)
while_test ==
  /\ pc = "while"
  /\ IF the_max <= MAX
     THEN /\ retry' = RetryCount(the_max, size)
          /\ LOG' = [c \in Retries \X Datas \X Orders \X Operations |-> 0]
          /\ orders_made' = 0
          /\ instances' = {}
          /\ pc' = "order_init"
     ELSE /\ pc' = "done"
          /\ UNCHANGED <<retry, LOG, orders_made, instances>>
  /\ UNCHANGED <<cfg_vars, b, the_max, the_retry, the_data, the_order,
                 inst_vars, order_vars, LAST, files, CACHE, env_vars,
                 passes, allocs, frees, sizes>>

\* order_init with the advanced SEED not stored back
order_init_seedlost ==
  /\ pc = "order_init"
  /\ LET res == order_init_result(the_max, sparse, SEED)
     IN  /\ FORWARD' = res[1]
         /\ RAND0' = res[2]
         /\ RAND1' = res[3]
         /\ SEED' = SEED
  /\ the_retry' = 0
  /\ sizes' = Append(sizes, the_max)
  /\ orders_made' = orders_made + 1
  /\ pc' = "for_retry"
  /\ UNCHANGED <<cfg_vars, b, the_max, retry, the_data, the_order, inst_vars,
                 result_vars, CACHE, env_vars, passes, allocs, frees,
                 instances>>

\* line 1704
order_init ==
  /\ pc = "order_init"
  /\ LET res == order_init_result(the_max, sparse, SEED)
     IN  /\ FORWARD' = res[1]
         /\ RAND0' = res[2]
         /\ RAND1' = res[3]
         /\ SEED' = res[4]
  /\ the_retry' = 0
  /\ sizes' = Append(sizes, the_max)
  /\ orders_made' = orders_made + 1
  /\ pc' = "for_retry"
  /\ UNCHANGED <<cfg_vars, b, the_max, retry, the_data, the_order, inst_vars,
                 result_vars, CACHE, env_vars, passes, allocs, frees,
                 instances>>

\* for_retry with the key orders generated again by every retry after the first
for_retry_reinit ==
  /\ pc = "for_retry"
  /\ IF the_retry < retry
     THEN /\ the_data' = 0
          /\ pc' = "for_data"
          /\ IF the_retry > 0
             THEN LET res == order_init_result(the_max, sparse, SEED)
                  IN  /\ FORWARD' = res[1]
                      /\ RAND0' = res[2]
                      /\ RAND1' = res[3]
                      /\ SEED' = res[4]
                      /\ orders_made' = orders_made + 1
             ELSE UNCHANGED <<order_vars, orders_made>>
     ELSE /\ the_data' = the_data
          /\ pc' = "order_done"
          /\ UNCHANGED <<order_vars, orders_made>>
  /\ UNCHANGED <<cfg_vars, b, the_max, retry, the_retry, the_order, inst_vars,
                 result_vars, CACHE, env_vars, passes, allocs, frees, sizes,
                 instances>>

\* line 1707
for_retry ==
  /\ pc = "for_retry"
  /\ IF the_retry < retry
     THEN the_data' = 0 /\ pc' = "for_data"
     ELSE the_data' = the_data /\ pc' = "order_done"
  /\ UNCHANGED <<cfg_vars, b, the_max, retry, the_retry, the_order, inst_vars,
                 order_vars, result_vars, CACHE, env_vars, hist_vars>>

\* the backend is left out because another one was selected with -d
NotSelected(d) == data # DATA_MAX /\ data # d

\* lines 1709-1714
for_data ==
  /\ pc = "for_data"
  /\ IF the_data < DATA_MAX
     THEN IF NotSelected(the_data)
          THEN /\ the_data' = the_data + 1
               /\ UNCHANGED <<the_retry, the_order, pc>>
          ELSE /\ the_order' = 0
               /\ pc' = "for_order"
               /\ UNCHANGED <<the_retry, the_data>>
     ELSE /\ the_retry' = the_retry + 1
          /\ pc' = "for_retry"
          /\ UNCHANGED <<the_data, the_order>>
  /\ UNCHANGED <<cfg_vars, b, the_max, retry, inst_vars, order_vars,
                 result_vars, CACHE, env_vars, hist_vars>>

\* Degenerated with no pair ever skipped
Degenerated_never(d, o) == FALSE

\* Degenerated reading the cleared LOG of the size in progress instead of LAST
Degenerated_log(d, o) ==
  data = DATA_MAX /\ LOG[<<0, d, o, OPERATION_REMOVE>>] > TIME_MAX_NS

\* Degenerated applied to a backend selected with -d as well
Degenerated_selected(d, o) == LAST[<<d, o>>] > TIME_MAX_NS

\* Degenerated taking the decision in the first retry only
Degenerated_firstretry(d, o) ==
  data = DATA_MAX /\ LAST[<<d, o>>] > TIME_MAX_NS /\ the_retry = 0

\* line 1720: the pair is skipped as a degenerated case
Degenerated(d, o) == data = DATA_MAX /\ LAST[<<d, o>>] > TIME_MAX_NS

\* lines 1716-1725
for_order ==
  /\ pc = "for_order"
  /\ IF the_order < ORDER_MAX
     THEN IF Degenerated(the_data, the_order)
          THEN /\ the_order' = the_order + 1
               /\ UNCHANGED <<the_data, pc>>
          ELSE /\ pc' = "alloc"
               /\ UNCHANGED <<the_data, the_order>>
     ELSE /\ the_data' = the_data + 1
          /\ pc' = "for_data"
          /\ UNCHANGED the_order
  /\ UNCHANGED <<cfg_vars, b, the_max, retry, the_retry, inst_vars, order_vars,
                 result_vars, CACHE, env_vars, hist_vars>>

(***************************************************************************)
(* One dataset instance: test_alloc, test_operation, test_free.            *)
(***************************************************************************)
\* lines 1728-1731: the arguments INSERT and SEARCH of test_operation
INSERT == IF the_order = ORDER_FORWARD THEN FORWARD ELSE RAND0
SEARCH == IF the_order = ORDER_FORWARD THEN FORWARD ELSE RAND1

\* the DELTA of test_miss (argument 1), test_change and test_remove
DELTA == 1

\* the key handled by iteration n of each pass
InsertKey(n) == INSERT[n]
HitKey(n) == SEARCH[n]
MissKey(n) == U32Add(SEARCH[n], DELTA)
ChangeOldKey(n) == SEARCH[n]
\* ChangeNewKey from the key that the iteration removes
ChangeNewKey_own(n) == U32Add(SEARCH[n], DELTA)

\* ChangeNewKey with the stride of the dense keys as its delta
ChangeNewKey_stride(n) == U32Add(INSERT[n], 2)

\* ChangeNewKey without the DELTA
ChangeNewKey_nodelta(n) == INSERT[n]
ChangeNewKey(n) == U32Add(INSERT[n], DELTA)
RemoveKey(n) == U32Add(SEARCH[n], DELTA)

\* NextOperation following the numbering of the OPERATION_ constants
NextOperation_numeric(op) == op + 1

\* NextOperation with the remove pass left out
NextOperation_noremove(op) ==
  CASE op = OPERATION_INSERT -> OPERATION_HIT
    [] op = OPERATION_HIT -> OPERATION_MISS
    [] op = OPERATION_MISS -> OPERATION_CHANGE
    [] op = OPERATION_CHANGE -> OPERATION_SIZE
    [] op = OPERATION_SIZE -> OPERATION_MAX
    [] op = OPERATION_REMOVE -> OPERATION_MAX

\* the operation that test_operation runs after op; OPERATION_MAX after the last
NextOperation(op) ==
  CASE op = OPERATION_INSERT -> OPERATION_HIT
    [] op = OPERATION_HIT -> OPERATION_MISS
    [] op = OPERATION_MISS -> OPERATION_CHANGE
    [] op = OPERATION_CHANGE -> OPERATION_SIZE
    [] op = OPERATION_SIZE -> OPERATION_REMOVE
    [] op = OPERATION_REMOVE -> OPERATION_MAX

\* the environment's choices for the instance that starts
LoadChoices ==
  IF Compiled(the_data) /\ slow < MaxSlow THEN {"idle", "busy"} ELSE {"idle"}

\* lines 646-714
test_alloc ==
  /\ pc = "alloc"
  /\ IF Compiled(the_data)
     THEN /\ container' = {}
          /\ OBJ' = [h \in 0..(the_max - 1) |-> NoKey]
          /\ allocated' = TRUE
     ELSE UNCHANGED <<container, OBJ, allocated>>
  /\ \E ld \in LoadChoices :
       /\ load' = ld
       /\ slow' = IF ld = "busy" THEN slow + 1 ELSE slow
  /\ allocs' = allocs + 1
  /\ passes' = <<>>
  /\ pc' = "cache_clear"
  /\ UNCHANGED <<cfg_vars, scan_vars, the_operation, i, order_vars, result_vars,
                 CACHE, fault_vars, rnd_vars, frees, sizes, instances,
                 orders_made>>

\* test_operation without its call of cache_clear
cache_clear_skipped ==
  /\ pc = "cache_clear"
  /\ the_operation' = OPERATION_INSERT
  /\ i' = 0
  /\ pc' = "operation"
  /\ UNCHANGED <<cfg_vars, scan_vars, OBJ, container, allocated, order_vars,
                 result_vars, CACHE, env_vars, hist_vars>>

\* lines 581-592 and 1629-1631: every touched byte of CACHE is incremented
cache_clear ==
  /\ pc = "cache_clear"
  /\ CACHE' = (CACHE + 1) % 256
  /\ the_operation' = OPERATION_INSERT
  /\ i' = 0
  /\ pc' = "operation"
  /\ UNCHANGED <<cfg_vars, scan_vars, OBJ, container, allocated, order_vars,
                 result_vars, env_vars, hist_vars>>

\* what a pass leaves alone
PassFrame ==
  UNCHANGED <<cfg_vars, scan_vars, the_operation, allocated, order_vars,
              result_vars, CACHE, env_vars, hist_vars>>

\* abort()
Abort ==
  /\ pc' = "aborted"
  /\ UNCHANGED <<i, OBJ, container>>

\* the START loop of the running pass has an iteration left
InPass(op) ==
  /\ pc = "operation"
  /\ the_operation = op
  /\ Compiled(the_data)
  /\ i < the_max

\* lines 791-890: one iteration
test_insert ==
  /\ InPass(OPERATION_INSERT)
  /\ LET key == InsertKey(i)
     IN  /\ OBJ' = [OBJ EXCEPT ![i] = key]
         /\ container' = container_insert(container, key, i)
  /\ i' = i + 1
  /\ pc' = pc
  /\ PassFrame

\* lines 892-1061: one iteration
test_hit ==
  /\ InPass(OPERATION_HIT)
  /\ LET key == HitKey(i)
         obj == container_search(container, key)
     IN  IF obj = NotFound
         THEN Abort
         ELSE IF OBJ[obj] # key
         THEN Abort
         ELSE /\ i' = i + 1
              /\ UNCHANGED <<pc, OBJ, container>>
  /\ PassFrame

\* lines 1063-1170: one iteration
test_miss ==
  /\ InPass(OPERATION_MISS)
  /\ LET key == MissKey(i)
         obj == container_search(container, key)
     IN  IF obj # NotFound
         THEN Abort
         ELSE /\ i' = i + 1
              /\ UNCHANGED <<pc, OBJ, container>>
  /\ PassFrame

\* lines 1172-1365: one iteration
test_change ==
  /\ InPass(OPERATION_CHANGE)
  /\ LET old == ChangeOldKey(i)
         obj == container_search(container, old)
         key == ChangeNewKey(i)
     IN  IF obj = NotFound
         THEN Abort
         ELSE /\ OBJ' = [OBJ EXCEPT ![obj] = key]
              /\ container' =
                   container_insert(container_remove(container, old, obj), key, obj)
              /\ i' = i + 1
              /\ pc' = pc
  /\ PassFrame

\* lines 1367-1561: one iteration
test_remove ==
  /\ InPass(OPERATION_REMOVE)
  /\ LET key == RemoveKey(i)
         obj == container_search(container, key)
     IN  IF obj = NotFound
         THEN Abort
         ELSE IF OBJ[obj] # key
         THEN Abort
         ELSE /\ container' = container_remove(container, key, obj)
              /\ i' = i + 1
              /\ UNCHANGED <<pc, OBJ>>
  /\ PassFrame

\* the statements of test_operation after a pass: the next OPERATION(), or
\* the return to test()
Advance ==
  /\ passes' = Append(passes, <<the_operation, i>>)
  /\ i' = 0
  /\ IF NextOperation(the_operation) = OPERATION_MAX
     THEN pc' = "free" /\ the_operation' = the_operation
     ELSE pc' = "operation" /\ the_operation' = NextOperation(the_operation)

\* lines 531-543: the end of a timed pass
stop ==
  /\ pc = "operation"
  /\ Compiled(the_data)
  /\ the_operation # OPERATION_SIZE
  /\ i = the_max
  /\ LOG' = [LOG EXCEPT ![<<the_retry, the_data, the_order, the_operation>>] =
               Elapsed(load, the_operation, the_max) \div the_max]
  /\ Advance
  /\ UNCHANGED <<cfg_vars, scan_vars, OBJ, container, allocated, order_vars,
                 LAST, files, CACHE, env_vars, allocs, frees, sizes,
                 instances, orders_made>>

\* lines 545-553 and 1603-1625
test_size ==
  /\ pc = "operation"
  /\ Compiled(the_data)
  /\ the_operation = OPERATION_SIZE
  /\ LOG' = [LOG EXCEPT ![<<the_retry, the_data, the_order, the_operation>>] =
               memory_usage(container_count(container)) \div the_max]
  /\ Advance
  /\ UNCHANGED <<cfg_vars, scan_vars, OBJ, container, allocated, order_vars,
                 LAST, files, CACHE, env_vars, allocs, frees, sizes,
                 instances, orders_made>>

\* a test function called for a backend that has no START or MEM block
not_compiled ==
  /\ pc = "operation"
  /\ ~Compiled(the_data)
  /\ Advance
  /\ UNCHANGED <<cfg_vars, scan_vars, OBJ, container, allocated, order_vars,
                 result_vars, CACHE, env_vars, allocs, frees, sizes,
                 instances, orders_made>>

\* lines 716-789, and the ++the_order of line 1716
test_free ==
  /\ pc = "free"
  /\ IF Compiled(the_data) /\ CountChecked(the_data)
          /\ container_count(container) # 0
     THEN /\ pc' = "aborted"
          /\ UNCHANGED <<the_order, OBJ, container, allocated, frees, instances>>
     ELSE /\ IF Compiled(the_data)
             THEN container' = {} /\ OBJ' = NoArray /\ allocated' = FALSE
             ELSE UNCHANGED <<container, OBJ, allocated>>
          /\ frees' = frees + 1
          /\ instances' =
               instances \cup {<<the_retry, the_data, the_order, Len(passes)>>}
          /\ the_order' = the_order + 1
          /\ pc' = "for_order"
  /\ UNCHANGED <<cfg_vars, b, the_max, retry, the_retry, the_data,
                 the_operation, i, order_vars, result_vars, CACHE, env_vars,
                 passes, allocs, sizes, orders_made>>

\* lines 639-644 and 1737
order_done ==
  /\ pc = "order_done"
  /\ FORWARD' = NoArray /\ RAND0' = NoArray /\ RAND1' = NoArray
  /\ pc' = "write"
  /\ UNCHANGED <<cfg_vars, scan_vars, inst_vars, SEED, result_vars, CACHE,
                 env_vars, hist_vars>>

(***************************************************************************)
(* The result sink.                                                        *)
(***************************************************************************)
RECURSIVE MinFrom_max(_, _, _, _, _)
\* MinFrom with the comparison reversed: the maximum
MinFrom_max(v, r, d, o, op) ==
  IF r >= retry THEN v
  ELSE MinFrom_max(IF LOG[<<r, d, o, op>>] > v THEN LOG[<<r, d, o, op>>] ELSE v,
                   r + 1, d, o, op)

RECURSIVE MinFrom(_, _, _, _, _)
\* lines 1756-1759: the loop for(i=1;i<retry;++i) from retry r on
MinFrom(v, r, d, o, op) ==
  IF r >= retry THEN v
  ELSE MinFrom(IF LOG[<<r, d, o, op>>] < v THEN LOG[<<r, d, o, op>>] ELSE v,
               r + 1, d, o, op)

\* lines 1755-1759: the minimum over the retries
MinLog(d, o, op) == MinFrom(LOG[<<0, d, o, op>>], 1, d, o, op)

\* DataRow with the retry count written in the place of the dataset size
DataRow_retry(o, op) == <<retry, [d \in Datas |-> MinLog(d, o, op)]>>

\* the row appended to the file of (o, op): the size, then a value per backend
DataRow(o, op) == <<the_max, [d \in Datas |-> MinLog(d, o, op)]>>

RECURSIVE LastFrom_size(_, _, _, _)
\* LastFrom with the value of the size operation taken like a time
LastFrom_size(last, d, o, op) ==
  IF op >= OPERATION_MAX THEN last
  ELSE LET v == MinLog(d, o, op)
       IN  LastFrom_size(IF v # 0 /\ last < v THEN v ELSE last, d, o, op + 1)

RECURSIVE LastFrom(_, _, _, _)
\* lines 1761-1765 over the operations op..OPERATION_MAX-1 of one pair
LastFrom(last, d, o, op) ==
  IF op >= OPERATION_MAX THEN last
  ELSE LET v == MinLog(d, o, op)
       IN  LastFrom(IF op # OPERATION_SIZE /\ v # 0 /\ last < v THEN v ELSE last,
                    d, o, op + 1)

\* write_data without the test of the_log
write_data_unguarded ==
  /\ pc = "write"
  /\ files' = [c \in Orders \X Operations |->
                 Append(files[c], DataRow(c[1], c[2]))]
  /\ LAST' = [c \in Datas \X Orders |-> LastFrom(LAST[c], c[1], c[2], 0)]
  /\ pc' = "grow"
  /\ UNCHANGED <<cfg_vars, scan_vars, inst_vars, order_vars, LOG, CACHE,
                 env_vars, hist_vars>>

\* lines 1739-1773
write_data ==
  /\ pc = "write"
  /\ IF the_log
     THEN /\ files' = [c \in Orders \X Operations |->
                         Append(files[c], DataRow(c[1], c[2]))]
          /\ LAST' = [c \in Datas \X Orders |-> LastFrom(LAST[c], c[1], c[2], 0)]
     ELSE UNCHANGED <<files, LAST>>
  /\ pc' = "grow"
  /\ UNCHANGED <<cfg_vars, scan_vars, inst_vars, order_vars, LOG, CACHE,
                 env_vars, hist_vars>>

\* grow with b left as it is in the sweep
grow_stuck ==
  /\ pc = "grow"
  /\ IF size # 0
     THEN /\ pc' = "done"
          /\ UNCHANGED <<b, the_max>>
     ELSE /\ b' = b
          /\ the_max' = b' \div 1000
          /\ pc' = "while"
  /\ UNCHANGED <<cfg_vars, retry, the_retry, the_data, the_order, inst_vars,
                 order_vars, result_vars, CACHE, env_vars, hist_vars>>

\* grow without the break of line 1776 for a pinned size
grow_nobreak ==
  /\ pc = "grow"
  /\ b' = (b * f) \div 1000
  /\ the_max' = b' \div 1000
  /\ pc' = "while"
  /\ UNCHANGED <<cfg_vars, retry, the_retry, the_data, the_order, inst_vars,
                 order_vars, result_vars, CACHE, env_vars, hist_vars>>

\* lines 1775-1780
grow ==
  /\ pc = "grow"
  /\ IF size # 0
     THEN /\ pc' = "done"
          /\ UNCHANGED <<b, the_max>>
     ELSE /\ b' = (b * f) \div 1000
          /\ the_max' = b' \div 1000
          /\ pc' = "while"
  /\ UNCHANGED <<cfg_vars, retry, the_retry, the_data, the_order, inst_vars,
                 order_vars, result_vars, CACHE, env_vars, hist_vars>>

Next ==
  \/ test_begin
  \/ while_test
  \/ order_init
  \/ for_retry
  \/ for_data
  \/ for_order
  \/ test_alloc
  \/ cache_clear
  \/ test_insert
  \/ test_hit
  \/ test_miss
  \/ test_change
  \/ test_size
  \/ test_remove
  \/ stop
  \/ not_compiled
  \/ test_free
  \/ order_done
  \/ write_data
  \/ grow

Spec == Init /\ [][Next]_vars

(***************************************************************************)
(* The environment at fault: a defective backend, a failing platform timer. *)
(***************************************************************************)
\* largest number of defects and timer failures of one run
MaxFault == 1

\* the container that a correct iteration of the running pass leaves
IterationResult ==
  CASE the_operation = OPERATION_INSERT ->
         container_insert(container, InsertKey(i), i)
    [] the_operation = OPERATION_CHANGE ->
         LET obj == container_search(container, ChangeOldKey(i))
         IN  container_insert(container_remove(container, ChangeOldKey(i), obj),
                              ChangeNewKey(i), obj)
    [] the_operation = OPERATION_REMOVE ->
         container_remove(container, RemoveKey(i),
                          container_search(container, RemoveKey(i)))

\* what a defective backend may leave where a correct one leaves c1 from c0:
\* an element is lost, the unlinked element stays linked, or the linked
\* element is also found under the next key
Defective(c0, c1) ==
  {c1 \ {e} : e \in c1}
    \cup {c1 \cup {e} : e \in c0 \ c1}
    \cup {c1 \cup {<<U32Add(e[1], DELTA), e[2]>>} : e \in c1 \ c0}

\* one iteration of test_insert, test_change or test_remove on a backend whose
\* insert or remove is defective: the benchmark sees nothing wrong in it
backend_defect ==
  /\ faults < MaxFault
  /\ \/ InPass(OPERATION_INSERT)
     \/ InPass(OPERATION_CHANGE)
     \/ InPass(OPERATION_REMOVE)
  /\ \E c \in Defective(container, IterationResult) : container' = c
  /\ OBJ' = CASE the_operation = OPERATION_INSERT ->
                   [OBJ EXCEPT ![i] = InsertKey(i)]
              [] the_operation = OPERATION_CHANGE ->
                   [OBJ EXCEPT ![container_search(container, ChangeOldKey(i))] =
                      ChangeNewKey(i)]
              [] the_operation = OPERATION_REMOVE -> OBJ
  /\ i' = i + 1
  /\ faults' = faults + 1
  /\ UNCHANGED <<pc, cfg_vars, scan_vars, the_operation, allocated, order_vars,
                 result_vars, CACHE, load, slow, timer_failed, rnd_vars,
                 hist_vars>>

\* the key that iteration n of a hit, change or remove pass looks up
LookupKey(n) ==
  CASE the_operation = OPERATION_HIT -> HitKey(n)
    [] the_operation = OPERATION_CHANGE -> ChangeOldKey(n)
    [] the_operation = OPERATION_REMOVE -> RemoveKey(n)

\* one iteration of test_hit, test_change or test_remove on a backend whose
\* search or remove delivers an element stored under another key: test_hit
\* (lines 909-911 for rbtree) and test_remove (lines 1387-1389) compare
\* obj->value with the key and abort, test_change (lines 1186-1190) writes the
\* new key into the element and links it
lookup_defect ==
  /\ faults < MaxFault
  /\ \/ InPass(OPERATION_HIT)
     \/ InPass(OPERATION_CHANGE)
     \/ InPass(OPERATION_REMOVE)
  /\ \E e \in container :
       /\ OBJ[e[2]] # LookupKey(i)
       /\ IF the_operation = OPERATION_CHANGE
          THEN /\ OBJ' = [OBJ EXCEPT ![e[2]] = ChangeNewKey(i)]
               /\ container' =
                    container_insert(container_remove(container, e[1], e[2]),
                                     ChangeNewKey(i), e[2])
               /\ i' = i + 1
               /\ pc' = pc
          ELSE Abort
  /\ faults' = faults + 1
  /\ UNCHANGED <<cfg_vars, scan_vars, the_operation, allocated, order_vars,
                 result_vars, CACHE, load, slow, timer_failed, rnd_vars,
                 hist_vars>>

\* the builds of nano(): the branches of its #if
Platforms == {"_WIN32", "__MACH__", "__linux", "other"}

\* lines 300-349: nano() on a platform, the timer call succeeding with the
\* sample t or failing: the value returned, or abort()
nano(platform, timer_ok, t) ==
  IF timer_ok THEN [aborted |-> FALSE, ret |-> t]
  ELSE IF platform = "_WIN32" THEN [aborted |-> FALSE, ret |-> 0]
  ELSE [aborted |-> TRUE, ret |-> 0]

\* what (unsigned)(elapsed / the_max) can be when nano() returned 0 in stop():
\* elapsed is 0 - the_time modulo 2^64, and depends on the sample of start()
BogusDurations == {0, TIME_MAX_NS + 1}

\* lines 531-543 with the timer call of nano() failing
stop_timer_failed ==
  /\ faults < MaxFault
  /\ pc = "operation"
  /\ Compiled(the_data)
  /\ the_operation # OPERATION_SIZE
  /\ i = the_max
  /\ \E platform \in Platforms :
       /\ timer_failed' = platform
       /\ IF nano(platform, FALSE, 0).aborted
          THEN /\ pc' = "aborted"
               /\ UNCHANGED <<LOG, the_operation, i, passes>>
          ELSE /\ \E v \in BogusDurations :
                    LOG' = [LOG EXCEPT
                              ![<<the_retry, the_data, the_order, the_operation>>] = v]
               /\ Advance
  /\ faults' = faults + 1
  /\ UNCHANGED <<cfg_vars, scan_vars, OBJ, container, allocated, order_vars,
                 LAST, files, CACHE, load, slow, rnd_vars, allocs, frees,
                 sizes, instances, orders_made>>

NextFaulty ==
  \/ Next
  \/ backend_defect
  \/ lookup_defect
  \/ stop_timer_failed

\* the runs observed at fault are those of single-size mode, test(size, ...)
\* with a size the loop of test() accepts
InitFaulty == Init /\ size \in 1..MAX

SpecFaulty == InitFaulty /\ [][NextFaulty]_vars

(***************************************************************************)
(* main(): the command line.                                               *)
(***************************************************************************)
\* largest number of arguments of a command line of the model
MaxArgs == 3

\* lines 449-462: the names of the listed backends
DATA_NAME ==
  [d \in Datas |->
     IF d = DATA_HASHTABLE THEN "tommy-hashtable"
     ELSE IF d = DATA_JUDY THEN "judy"
     ELSE IF d = DATA_TREE THEN "rbtree"
     ELSE "backend-" \o ToString(d)]

\* the strings an argument can be: the options of main(), an option it does
\* not know, numerals, the backend names and a name that is not listed
Numerals == {"0", "2", "-1", "99"}
Words ==
  {"-l", "-s", "-m", "-n", "-N", "-d", "-x"} \cup Numerals
    \cup {DATA_NAME[d] : d \in Datas} \cup {"no-such-data"}

ArgLists == UNION {[1..n -> Words] : n \in 0..MaxArgs}

\* atoi(): the value of a numeral, 0 for a string that does not start as one
atoi(str) ==
  CASE str = "2" -> 2
    [] str = "-1" -> -1
    [] str = "99" -> 99
    [] OTHER -> 0

\* the conversion of the int flag_size to the unsigned parameter size of
\* test(): 2^32 + v for a negative v.  The integers of the model end at
\* 2^31 - 1, so a negative v is kept as 2^31 + v: still different from 0 and
\* above MAX, which is all that test() reads of it.
UnsignedOf(v) == IF v >= 0 THEN v ELSE (2147483647 + v) + 1

\* the flags of main() as a record, with the loop variable i and whether
\* exit(EXIT_FAILURE) was called
Flags ==
  [flag_data |-> flag_data, flag_size |-> flag_size, flag_log |-> flag_log,
   flag_miss |-> flag_miss, flag_sparse |-> flag_sparse, i |-> main_i,
   exit |-> FALSE]

\* the index j that the loop of lines 1850-1854 leaves in flag_data
DataOfName(str) ==
  IF \E j \in Datas : DATA_NAME[j] = str
  THEN CHOOSE j \in Datas :
         DATA_NAME[j] = str /\ \A k \in Datas : DATA_NAME[k] = str => k <= j
  ELSE DATA_MAX

\* ParseArg with an unknown option skipped instead of refused
ParseArg_lenient(fl, av) ==
  LET a == av[fl.i]
      last == fl.i + 1 > Len(av)
  IN  IF a = "-l" THEN [fl EXCEPT !.flag_log = 1]
      ELSE IF a = "-s" THEN [fl EXCEPT !.flag_sparse = 1]
      ELSE IF a = "-m" THEN [fl EXCEPT !.flag_miss = 1]
      ELSE IF a = "-n" THEN [fl EXCEPT !.flag_size = MAX]
      ELSE IF a = "-N"
      THEN IF last THEN [fl EXCEPT !.exit = TRUE]
           ELSE [fl EXCEPT !.flag_size = atoi(av[fl.i + 1]), !.i = fl.i + 1]
      ELSE IF a = "-d"
      THEN IF last THEN [fl EXCEPT !.exit = TRUE]
           ELSE IF DataOfName(av[fl.i + 1]) = DATA_MAX
           THEN [fl EXCEPT !.flag_data = DATA_MAX, !.exit = TRUE]
           ELSE [fl EXCEPT !.flag_data = DataOfName(av[fl.i + 1]), !.i = fl.i + 1]
      ELSE fl

\* ParseArg with the log flag cleared by -s
ParseArg_coupled(fl, av) ==
  LET a == av[fl.i]
      last == fl.i + 1 > Len(av)
  IN  IF a = "-l" THEN [fl EXCEPT !.flag_log = 1]
      ELSE IF a = "-s" THEN [fl EXCEPT !.flag_sparse = 1, !.flag_log = 0]
      ELSE IF a = "-m" THEN [fl EXCEPT !.flag_miss = 1]
      ELSE IF a = "-n" THEN [fl EXCEPT !.flag_size = MAX]
      ELSE IF a = "-N"
      THEN IF last THEN [fl EXCEPT !.exit = TRUE]
           ELSE [fl EXCEPT !.flag_size = atoi(av[fl.i + 1]), !.i = fl.i + 1]
      ELSE IF a = "-d"
      THEN IF last THEN [fl EXCEPT !.exit = TRUE]
           ELSE IF DataOfName(av[fl.i + 1]) = DATA_MAX
           THEN [fl EXCEPT !.flag_data = DATA_MAX, !.exit = TRUE]
           ELSE [fl EXCEPT !.flag_data = DataOfName(av[fl.i + 1]), !.i = fl.i + 1]
      ELSE [fl EXCEPT !.exit = TRUE]

\* lines 1828-1863: the body of the loop for the argument av[fl.i]
ParseArg(fl, av) ==
  LET a == av[fl.i]
      last == fl.i + 1 > Len(av)
  IN  IF a = "-l" THEN [fl EXCEPT !.flag_log = 1]
      ELSE IF a = "-s" THEN [fl EXCEPT !.flag_sparse = 1]
      ELSE IF a = "-m" THEN [fl EXCEPT !.flag_miss = 1]
      ELSE IF a = "-n" THEN [fl EXCEPT !.flag_size = MAX]
      ELSE IF a = "-N"
      THEN IF last THEN [fl EXCEPT !.exit = TRUE]
           ELSE [fl EXCEPT !.flag_size = atoi(av[fl.i + 1]), !.i = fl.i + 1]
      ELSE IF a = "-d"
      THEN IF last THEN [fl EXCEPT !.exit = TRUE]
           ELSE IF DataOfName(av[fl.i + 1]) = DATA_MAX
           THEN [fl EXCEPT !.flag_data = DATA_MAX, !.exit = TRUE]
           ELSE [fl EXCEPT !.flag_data = DataOfName(av[fl.i + 1]), !.i = fl.i + 1]
      ELSE [fl EXCEPT !.exit = TRUE]

\* line 1827 and the ++i of the loop: one iteration
main_arg ==
  /\ pc = "main"
  /\ main_i <= Len(argv)
  /\ LET r == ParseArg(Flags, argv)
     IN  /\ flag_data' = r.flag_data
         /\ flag_size' = r.flag_size
         /\ flag_log' = r.flag_log
         /\ flag_miss' = r.flag_miss
         /\ flag_sparse' = r.flag_sparse
         /\ IF r.exit
            THEN pc' = "exit" /\ status' = "EXIT_FAILURE" /\ main_i' = main_i
            ELSE pc' = pc /\ status' = status /\ main_i' = r.i + 1
  /\ UNCHANGED <<size, data, log, sparse, the_log, argv, scan_vars, inst_vars,
                 order_vars, result_vars, CACHE, env_vars, hist_vars>>

\* lines 1866-1871: the loop is over; test_cache_miss() and return, or test()
main_run ==
  /\ pc = "main"
  /\ main_i > Len(argv)
  /\ IF flag_miss # 0
     THEN /\ pc' = "exit"
          /\ status' = "EXIT_SUCCESS"
          /\ UNCHANGED <<size, data, log, sparse>>
     ELSE /\ size' = UnsignedOf(flag_size)
          /\ data' = flag_data
          /\ log' = flag_log
          /\ sparse' = flag_sparse
          /\ pc' = "test"
          /\ status' = status
  /\ UNCHANGED <<the_log, argv, main_i, flag_data, flag_size, flag_log,
                 flag_miss, flag_sparse, scan_vars, inst_vars, order_vars,
                 result_vars, CACHE, env_vars, hist_vars>>

\* lines 1873-1875: test() has returned
main_return ==
  /\ pc = "done"
  /\ pc' = "exit"
  /\ status' = "EXIT_SUCCESS"
  /\ UNCHANGED <<size, data, log, sparse, the_log, argv, main_i, flag_data,
                 flag_size, flag_log, flag_miss, flag_sparse, scan_vars,
                 inst_vars, order_vars, result_vars, CACHE, env_vars, hist_vars>>

\* main() about to parse a command line, on a machine that stays idle
InitMain ==
  /\ pc = "main"
  /\ argv \in ArgLists
  /\ size = 0 /\ data = 0 /\ log = 0 /\ sparse = 0
  /\ slow = MaxSlow
  /\ Loaded

NextMain ==
  \/ main_arg
  \/ main_run
  \/ main_return
  \/ Next

SpecMain == InitMain /\ [][NextMain]_vars

\* the steps of main() and test() other than order_init
StepsButOrderInit ==
  \/ main_arg \/ main_run \/ main_return
  \/ test_begin \/ while_test \/ for_retry \/ for_data \/ for_order
  \/ test_alloc \/ cache_clear
  \/ test_insert \/ test_hit \/ test_miss \/ test_change \/ test_size
  \/ test_remove \/ stop \/ not_compiled \/ test_free
  \/ order_done \/ write_data \/ grow

\* the step that order_init takes, by its effect on pc only
OrderInitReturns == pc = "order_init" /\ pc' = "for_retry"

\* the program is never stopped while a statement is left to execute
SpecMainFair ==
  SpecMain /\ WF_vars(StepsButOrderInit) /\ WF_pc(OrderInitReturns)

(***************************************************************************)
(* Properties.                                                             *)
(***************************************************************************)
\* the keys of the live elements
LiveKeys == {e[1] : e \in container}

\* a dataset instance of a compiled backend is between test_alloc and test_free
InInstance == pc \in {"cache_clear", "operation", "free"}

\* the order in which test_operation runs the six operations
OperationSequence ==
  <<OPERATION_INSERT, OPERATION_HIT, OPERATION_MISS, OPERATION_CHANGE,
    OPERATION_SIZE, OPERATION_REMOVE>>

\* C1: when the six operations of a dataset instance are over and test_free
\* is about to run, the container holds no live element, for every backend,
\* size, key mode and order; so test_free never finds a non-zero count.
C1_EmptyAtTeardown == pc = "free" => container_count(container) = 0

\* C1 witness: a random-order instance of the largest size of a backend whose
\* teardown checks the count has finished its remove pass.
C1_Witness ==
  /\ pc = "free"
  /\ the_data = DATA_HASHTABLE
  /\ the_order = ORDER_RANDOM
  /\ the_max = MAX
  /\ Len(passes) = OPERATION_MAX
  /\ passes[OPERATION_MAX] = <<OPERATION_REMOVE, MAX>>

\* C2: every lookup of the hit pass finds a live element, and the value
\* stored in that element is the key looked up; the elements were inserted
\* from FORWARD and are looked up from FORWARD in forward order, inserted from
\* RAND0 and looked up from RAND1 in random order.
C2_HitFinds ==
  InPass(OPERATION_HIT) =>
    /\ LET obj == container_search(container, HitKey(i))
       IN  obj # NotFound /\ OBJ[obj] = HitKey(i)
    /\ OBJ = (IF the_order = ORDER_FORWARD THEN FORWARD ELSE RAND0)
    /\ HitKey(i) = (IF the_order = ORDER_FORWARD THEN FORWARD ELSE RAND1)[i]

\* C2 witness: the last lookup of a random-order hit pass, where the element
\* was inserted at another position of RAND0 than the key has in RAND1.
C2_Witness ==
  /\ InPass(OPERATION_HIT)
  /\ the_order = ORDER_RANDOM
  /\ i = the_max - 1
  /\ RAND0[i] # RAND1[i]
  /\ container_search(container, HitKey(i)) # i

\* C3: every key SEARCH[i] + 1 looked up by the miss pass is absent from the
\* container when it is looked up.
C3_MissAbsent ==
  InPass(OPERATION_MISS) =>
    container_search(container, MissKey(i)) = NotFound

\* C3 witness: the last lookup of a miss pass over the largest dataset in
\* dense mode, where the keys are 2 apart.
C3_Witness ==
  /\ InPass(OPERATION_MISS)
  /\ sparse = 0
  /\ the_max = MAX
  /\ i = the_max - 1
  /\ container_count(container) = MAX

\* C4: inside one instance the passes run in the order insert, hit, miss,
\* change, size, remove, each once; a timed pass of a compiled backend is over
\* only after the_max iterations, and the next operation starts after it.
C4_FixedOrder ==
  InInstance =>
    /\ Len(passes) <= OPERATION_MAX
    /\ \A k \in 1..Len(passes) :
         /\ passes[k][1] = OperationSequence[k]
         /\ (Compiled(the_data) /\ passes[k][1] # OPERATION_SIZE)
               => passes[k][2] = the_max
    /\ pc = "operation" =>
         /\ Len(passes) < OPERATION_MAX
         /\ the_operation = OperationSequence[Len(passes) + 1]
    /\ pc = "free" => Len(passes) = OPERATION_MAX

\* C4 witness: the size operation is running after four complete passes.
C4_Witness ==
  /\ pc = "operation"
  /\ Compiled(the_data)
  /\ the_operation = OPERATION_SIZE
  /\ passes = <<<<OPERATION_INSERT, the_max>>, <<OPERATION_HIT, the_max>>,
                <<OPERATION_MISS, the_max>>, <<OPERATION_CHANGE, the_max>>>>

\* C5: when the change pass is over the live keys are exactly the base keys
\* plus 1, one element per key; and every lookup SEARCH[i] + 1 of the remove
\* pass finds an element whose stored value is that key.
C5_ShiftedByOne ==
  /\ (pc = "operation" /\ Compiled(the_data) /\ the_operation = OPERATION_SIZE) =>
       /\ LiveKeys = {U32Add(FORWARD[j], 1) : j \in 0..(the_max - 1)}
       /\ container_count(container) = the_max
  /\ InPass(OPERATION_REMOVE) =>
       LET obj == container_search(container, RemoveKey(i))
       IN  obj # NotFound /\ OBJ[obj] = RemoveKey(i)

\* C5 witness: a remove pass in random order is under way, half done.
C5_Witness ==
  /\ InPass(OPERATION_REMOVE)
  /\ the_order = ORDER_RANDOM
  /\ the_max = MAX
  /\ i = 3
  /\ container_count(container) = MAX - 3

\* the row of the dataset size just written to the file of (o, op)
LastRow(o, op) == files[<<o, op>>][Len(files[<<o, op>>])]

\* C6: the value written for a cell is at most the raw LOG value of every
\* retry executed for the size, and it is the LOG value of one of them.
C6_MinOverRetries ==
  (pc = "grow" /\ the_log) =>
    \A d \in Datas, o \in Orders, op \in Operations :
      LET v == LastRow(o, op)[2][d]
      IN  /\ \A r \in 0..(retry - 1) : v <= LOG[<<r, d, o, op>>]
          /\ \E r \in 0..(retry - 1) : v = LOG[<<r, d, o, op>>]

\* C6 witness: a row was written for a size measured twice, where the second
\* retry of a cell was the faster one.
C6_Witness ==
  /\ pc = "grow"
  /\ the_log
  /\ retry = 2
  /\ \E d \in Datas, o \in Orders :
       /\ LOG[<<1, d, o, OPERATION_HIT>>] < LOG[<<0, d, o, OPERATION_HIT>>]
       /\ LastRow(o, OPERATION_HIT)[2][d] = LOG[<<1, d, o, OPERATION_HIT>>]

\* C7: in a sweep with no size pinned and no backend selected, a pair whose
\* LAST exceeds TIME_MAX_NS keeps a LAST above it and no step takes the run
\* into an alloc, a pass or a teardown of that pair.
C7_SkipIsPermanent ==
  [][(size = 0 /\ data = DATA_MAX) =>
       \A d \in Datas, o \in Orders :
         LAST[<<d, o>>] > TIME_MAX_NS =>
           /\ LAST'[<<d, o>>] > TIME_MAX_NS
           /\ ~(pc' \in {"alloc", "cache_clear", "operation", "free"}
                  /\ the_data' = d /\ the_order' = o)]_vars

\* C7 witness: at a later size of a sweep a pair is about to be skipped
\* while another pair of the same backend is not.
C7_Witness ==
  /\ size = 0 /\ data = DATA_MAX
  /\ Len(sizes) >= 2
  /\ pc = "for_order"
  /\ the_order = ORDER_RANDOM
  /\ Degenerated(the_data, the_order)
  /\ ~Degenerated(the_data, ORDER_FORWARD)

\* the k-th dataset size of a run of test(size, ...): the double b after k - 1
\* multiplications by f, truncated
RECURSIVE GrownB(_)
GrownB(k) == IF k <= 1 THEN 1000 * BASE ELSE (GrownB(k - 1) * f) \div 1000
SizeAt(k) == IF size # 0 THEN size ELSE GrownB(k) \div 1000

\* what a run with the arguments (size, sparse) generates at its k-th dataset
\* size, from SEED = 0 at program start: <<FORWARD, RAND0, RAND1, SEED>>
RECURSIVE OrdersAt(_)
OrdersAt(k) ==
  order_init_result(SizeAt(k), sparse,
                    IF k <= 1 THEN U64Zero ELSE OrdersAt(k - 1)[4])

\* C8: the three sequences of a dataset size are a function of the initial
\* seed, of the run's arguments and of the position of the size in the run
\* only: any two runs with the same seed and inputs hold the same FORWARD,
\* RAND0 and RAND1 when a retry of that size starts and when the size is
\* over, whatever was measured in between.
C8_Deterministic ==
  pc \in {"for_retry", "order_done"} =>
    <<FORWARD, RAND0, RAND1, SEED>> = OrdersAt(Len(sizes))

\* C8 witness: the second size of a sweep is over after a pair was measured
\* under load, and RAND0 and RAND1 are different shuffles.
C8_Witness ==
  /\ size = 0
  /\ Len(sizes) = 2
  /\ pc = "order_done"
  /\ slow > 0
  /\ RAND0 # RAND1
  /\ RAND0 # FORWARD

\* C9: between order_init and order_done of a dataset size the sequences were
\* generated once, and no step other than order_init and order_done changes
\* FORWARD, RAND0 or RAND1.
C9_OrdersFrame ==
  /\ [](pc \in {"for_retry", "for_data", "for_order", "alloc", "cache_clear",
                "operation", "free", "order_done"} => orders_made = 1)
  /\ [][pc \notin {"order_init", "order_done"} =>
          UNCHANGED <<FORWARD, RAND0, RAND1>>]_vars

\* C9 witness: the second retry of a size has reached the teardown of a
\* random-order instance of the second backend.
C9_Witness ==
  /\ pc = "free"
  /\ the_retry = 1
  /\ the_data = DATA_TREE
  /\ the_order = ORDER_RANDOM
  /\ orders_made = 1
  /\ FORWARD = ForwardOrder(the_max, sparse)

\* C10 as stated: a run with one size pinned and one backend selected makes
\* one alloc, one six-operation sequence and one teardown, with one retry,
\* at the pinned size only.
C10_Original ==
  (pc = "done" /\ size \in 1..MAX /\ data # DATA_MAX) =>
    /\ allocs = 1 /\ frees = 1
    /\ retry = 1 /\ the_retry = 1
    /\ sizes = <<size>>

\* C10 amended: such a run makes one dataset instance per key order, forward
\* then random: ORDER_MAX allocs and teardowns, in one retry, at the pinned
\* size only.
C10_OneInstancePerOrder ==
  (pc = "done" /\ size \in 1..MAX /\ data # DATA_MAX) =>
    /\ allocs = ORDER_MAX /\ frees = ORDER_MAX
    /\ retry = 1 /\ the_retry = 1
    /\ sizes = <<size>>

\* C10 witness: a run pinned to a size small enough for the sweep to retry it
\* has ended, with the first backend selected.
C10_Witness ==
  /\ pc = "done"
  /\ size = 2
  /\ data = DATA_HASHTABLE
  /\ allocs = ORDER_MAX

\* clamp(floor(RETRY_NUM / n), 1, RETRY_MAX)
ClampRetries(n) ==
  LET q == RETRY_NUM \div n
  IN  IF q < 1 THEN 1 ELSE IF q > RETRY_MAX THEN RETRY_MAX ELSE q

\* the (backend, order) pairs measured at the dataset size in progress
MeasuredPairs ==
  {c \in Datas \X Orders : ~NotSelected(c[1]) /\ ~Degenerated(c[1], c[2])}

\* the instances of k retries that ran all six operations for every measured pair
FullRetries(k) ==
  {<<r, c[1], c[2], OPERATION_MAX>> : r \in 0..(k - 1), c \in MeasuredPairs}

LookupViolation ==
  \/ /\ InPass(OPERATION_HIT)
     /\ LET obj == container_search(container, HitKey(i))
        IN  obj = NotFound \/ OBJ[obj] # HitKey(i)
  \/ /\ InPass(OPERATION_MISS)
     /\ container_search(container, MissKey(i)) # NotFound
  \/ /\ InPass(OPERATION_CHANGE)
     /\ container_search(container, ChangeOldKey(i)) = NotFound
  \/ /\ InPass(OPERATION_REMOVE)
     /\ LET obj == container_search(container, RemoveKey(i))
        IN  obj = NotFound \/ OBJ[obj] # RemoveKey(i)

\* the container of the instance holds live elements when test_free is called
TeardownViolation ==
  pc = "free" /\ Compiled(the_data) /\ container_count(container) # 0

\* C12: the step taken from a state with a contract violation (a hit, change
\* or remove lookup that fails, a miss lookup that succeeds, a non-zero count
\* at teardown) ends in the aborted state and writes no LOG cell, no LAST cell
\* and no row; and no step is taken from the aborted state.
C12_Original ==
  [][/\ (LookupViolation \/ TeardownViolation) =>
          (pc' = "aborted" /\ UNCHANGED <<LOG, LAST, files>>)
     /\ pc # "aborted"]_vars

\* C12 witness: the teardown of an instance of a backend whose test_free does
\* not read the count is reached with an element left in the container.
C12_Witness ==
  /\ TeardownViolation
  /\ ~CountChecked(the_data)
  /\ the_log
  /\ Len(passes) = OPERATION_MAX

\* C14: after a failed timer call of nano() the process is aborted: nano()
\* has not returned a value to stop().
C14_Original == timer_failed # "no" => pc = "aborted"

\* C14 witness: the timer call failed in the stop() of an insert pass of a
\* _WIN32 build, the LOG cell holds a value that is no duration, and the hit
\* pass is running.
C14_Witness ==
  /\ timer_failed = "_WIN32"
  /\ pc = "operation"
  /\ the_operation = OPERATION_HIT
  /\ LOG[<<the_retry, the_data, the_order, OPERATION_INSERT>>] = TIME_MAX_NS + 1

\* C18: for every backend, test_free called with live elements in the
\* container aborts and releases neither the container nor the elements.
C18_Original ==
  [][TeardownViolation =>
       (pc' = "aborted" /\ UNCHANGED <<container, OBJ, allocated>>)]_vars

\* C18 witness: test_free has released the container of a backend of which it
\* does not read the count, and the run went on: before the teardown the
\* change pass had left one element more than the remove pass removes.
C18_Witness ==
  /\ pc = "for_order"
  /\ the_data = DATA_TREE
  /\ faults = 1 /\ timer_failed = "no"
  /\ frees = 1
  /\ ~allocated
  /\ \E n \in instances : n[2] = DATA_TREE /\ n[4] = OPERATION_MAX

\* the number of dataset sizes whose retries and write loop are over
CompletedSizes ==
  IF pc \in {"for_retry", "for_data", "for_order", "alloc", "cache_clear",
             "operation", "free", "order_done", "write", "aborted"}
  THEN Len(sizes) - 1
  ELSE Len(sizes)

\* the file holds the header and one row for each of the first n sizes of the run
FileHoldsSizes(file, n) ==
  /\ Len(file) = n + 1
  /\ file[1] = HeaderRow
  /\ \A k \in 1..n :
       /\ file[k + 1][1] = sizes[k]
       /\ DOMAIN file[k + 1][2] = Datas
       /\ k > 1 => file[k][1] < file[k + 1][1]

\* C17: in a run that writes results, once the headers are written every
\* result file is the header row followed by one row per completed dataset
\* size, in strictly increasing size order, each row made of its size and one
\* value per listed backend; a step that changes a file is the header write
\* or the write loop entered after the last retry of the size, and it only
\* appends.
C17_Files ==
  /\ []((the_log /\ pc # "test") =>
         \A c \in Orders \X Operations : FileHoldsSizes(files[c], CompletedSizes))
  /\ [][files' # files =>
          /\ pc = "test" \/ (pc = "write" /\ the_retry = retry)
          /\ \A c \in Orders \X Operations :
               /\ Len(files'[c]) = Len(files[c]) + 1
               /\ SubSeq(files'[c], 1, Len(files[c])) = files[c]]_vars

\* C17 witness: a sweep has ended with every size from BASE to MAX measured
\* and written.
C17_Witness ==
  /\ pc = "done"
  /\ size = 0
  /\ Len(sizes) = MAX - BASE + 1
  /\ Len(files[<<ORDER_RANDOM, OPERATION_REMOVE>>]) = Len(sizes) + 1
  /\ files[<<ORDER_RANDOM, OPERATION_REMOVE>>][Len(sizes) + 1][1] = MAX

\* the argument that main() is about to parse is a usage error: an option it
\* does not know, -N or -d as the last argument, -d before a name that is not
\* in DATA_NAME
UsageError ==
  /\ pc = "main"
  /\ main_i <= Len(argv)
  /\ \/ argv[main_i] \notin {"-l", "-s", "-m", "-n", "-N", "-d"}
     \/ argv[main_i] \in {"-N", "-d"} /\ main_i = Len(argv)
     \/ /\ argv[main_i] = "-d"
        /\ main_i < Len(argv)
        /\ \A d \in Datas : DATA_NAME[d] # argv[main_i + 1]

\* no key order was generated, no backend allocated, no measurement taken
\* and no result file opened
NothingMeasured ==
  /\ sizes = <<>> /\ orders_made = 0 /\ FORWARD = NoArray
  /\ allocs = 0 /\ frees = 0 /\ ~allocated
  /\ \A c \in DOMAIN LOG : LOG[c] = 0
  /\ \A c \in DOMAIN files : files[c] = <<>>
  /\ ~the_log

\* C13: the step that parses a usage error, at whatever position of the
\* argument list, ends the process with EXIT_FAILURE; the process that exited
\* with EXIT_FAILURE has measured nothing, and it takes no further step.
C13_UsageErrors ==
  /\ [](status = "EXIT_FAILURE" => (pc = "exit" /\ NothingMeasured))
  /\ [][/\ UsageError => (pc' = "exit" /\ status' = "EXIT_FAILURE")
        /\ pc # "exit"]_vars

\* C13 witness: the third argument, read after two well-formed options, is an
\* option main() does not know.
C13_Witness ==
  /\ UsageError
  /\ main_i = 3
  /\ argv = <<"-l", "-m", "-x">>
  /\ flag_log = 1 /\ flag_miss = 1

RECURSIVE OptionAt(_, _)
\* main() reads av[k] as an option, not as the value of a -N or -d before it
OptionAt(av, k) ==
  IF k = 1 THEN TRUE
  ELSE \/ OptionAt(av, k - 1) /\ av[k - 1] \notin {"-N", "-d"}
       \/ k >= 3 /\ OptionAt(av, k - 2) /\ av[k - 2] \in {"-N", "-d"}

\* the positions of the options that set the dataset size
SizeOptions(av) ==
  {k \in 1..Len(av) : OptionAt(av, k) /\ av[k] \in {"-n", "-N"}}

\* the run was started with -N as its only size option, called test() and
\* has ended
RanWithN ==
  /\ pc = "exit" /\ status = "EXIT_SUCCESS" /\ flag_miss = 0
  /\ \E k \in 1..(Len(argv) - 1) : SizeOptions(argv) = {k} /\ argv[k] = "-N"

\* the integer given to that -N
ValueOfN ==
  atoi(argv[(CHOOSE k \in SizeOptions(argv) : TRUE) + 1])

\* C16 as stated: a run started with -N v has measured the dataset size v
\* once and no other size, whatever the integer v.
C16_Original == RanWithN => sizes = <<ValueOfN>>

\* C16 amended: a run started with -N v has measured the size v once and no
\* other size when 1 <= v <= MAX; with v = 0 it has swept the sizes from the
\* base size up to MAX; with v < 0 or v > MAX it has measured nothing.
C16_PinnedInRange ==
  RanWithN =>
    IF ValueOfN \in 1..MAX
    THEN sizes = <<ValueOfN>> /\ size = ValueOfN /\ the_max = ValueOfN
    ELSE IF ValueOfN = 0
    THEN /\ size = 0
         /\ Len(sizes) > 1
         /\ \A k \in 1..Len(sizes) : sizes[k] = GrownB(k) \div 1000
         /\ the_max > MAX
    ELSE /\ sizes = <<>> /\ orders_made = 0 /\ allocs = 0
         /\ \A c \in DOMAIN LOG : LOG[c] = 0
         /\ \A c \in DOMAIN files : Len(files[c]) <= 1

\* C16 witness: the run of -N 2 -l has ended with the size 2 measured and one
\* row written.
C16_Witness ==
  /\ RanWithN
  /\ argv = <<"-N", "2", "-l">>
  /\ sizes = <<2>>
  /\ Len(files[<<ORDER_FORWARD, OPERATION_INSERT>>]) = 2
  /\ allocs = DATA_MAX * ORDER_MAX

\* test() has returned to main()
TestReturned ==
  \/ pc = "done"
  \/ pc = "exit" /\ status = "EXIT_SUCCESS" /\ flag_miss = 0

FlagsAtStart ==
  [flag_data |-> DATA_MAX, flag_size |-> 0, flag_log |-> 0, flag_miss |-> 0,
   flag_sparse |-> 0, i |-> 1, exit |-> FALSE]

\* the (retry, backend, order) triples of the instances torn down at the size
\* in progress
InstancesRun == {<<t[1], t[2], t[3]>> : t \in instances}

\* C19: -d followed by the name of backend d makes main() select d. In a run
\* with the backend data selected, an instance is allocated, measured and torn
\* down for that backend only; every LOG cell and every value of a result row
\* of another backend is 0; and no order of the selected backend is skipped
\* as degenerated: at each size every retry runs both orders, also after the
\* pair has taken longer than TIME_MAX_NS.
C19_OnlySelected ==
  /\ [](\A d \in Datas :
          LET r == ParseArg(FlagsAtStart, <<"-d", DATA_NAME[d]>>)
          IN  r.flag_data = d /\ ~r.exit)
  /\ [](data # DATA_MAX =>
          /\ \A t \in instances : t[2] = data
          /\ allocated => the_data = data
          /\ \A c \in DOMAIN LOG : c[2] # data => LOG[c] = 0
          /\ \A c \in DOMAIN files : \A k \in 2..Len(files[c]) :
               \A d \in Datas : d # data => files[c][k][2][d] = 0
          /\ pc = "write" => InstancesRun = (0..(retry - 1)) \X {data} \X Orders)
  /\ [][data # DATA_MAX =>
          /\ (allocs' # allocs \/ frees' # frees \/ passes' # passes
                \/ allocated' # allocated) => the_data = data
          /\ (pc = "for_order" /\ the_order < ORDER_MAX) => pc' = "alloc"]_vars

\* C19 witness: in a logged sweep restricted to the tree backend, the random
\* order took longer than TIME_MAX_NS at an earlier size and both orders of
\* the backend have been measured again at the size that is written now.
C19_Witness ==
  /\ pc = "write"
  /\ data = DATA_TREE /\ size = 0 /\ the_log
  /\ Len(sizes) >= 2
  /\ LAST[<<DATA_TREE, ORDER_RANDOM>>] > TIME_MAX_NS
  /\ InstancesRun = (0..(retry - 1)) \X {DATA_TREE} \X Orders
  /\ LOG[<<0, DATA_TREE, ORDER_RANDOM, OPERATION_REMOVE>>] # 0
  /\ Len(files[<<ORDER_RANDOM, OPERATION_REMOVE>>]) >= 2
  /\ allocs = frees

RECURSIVE ParseAll(_, _)
\* the loop of main() from the argument av[fl.i] on: the flags when it ends or
\* exits
ParseAll(fl, av) ==
  IF fl.i > Len(av) THEN fl
  ELSE LET r == ParseArg(fl, av)
       IN  IF r.exit THEN r ELSE ParseAll([r EXCEPT !.i = r.i + 1], av)

\* the configuration that main() passes on
ConfigOf(fl) ==
  <<fl.flag_size, fl.flag_data, fl.flag_log, fl.flag_sparse, fl.flag_miss>>

RECURSIVE UnitsFrom(_, _)
\* the flags of av from position k on, -N and -d together with their value
UnitsFrom(av, k) ==
  IF k > Len(av) THEN <<>>
  ELSE IF av[k] \in {"-N", "-d"} /\ k < Len(av)
  THEN <<SubSeq(av, k, k + 1)>> \o UnitsFrom(av, k + 2)
  ELSE <<SubSeq(av, k, k)>> \o UnitsFrom(av, k + 1)

RECURSIVE Joined(_, _, _)
\* the flags us[p[k]], us[p[k + 1]], ... written one after the other
Joined(us, p, k) ==
  IF k > Len(us) THEN <<>> ELSE us[p[k]] \o Joined(us, p, k + 1)

\* the argument lists made of the flags of av in every order
Reorderings(av) ==
  LET us == UnitsFrom(av, 1)
      n == Len(us)
  IN  {Joined(us, p, 1) :
         p \in {q \in [1..n -> 1..n] : \A x, y \in 1..n : x # y => q[x] # q[y]}}

\* the positions of the -d options
DataOptions(av) == {k \in 1..Len(av) : OptionAt(av, k) /\ av[k] = "-d"}

\* the largest element of a non-empty set of positions
Last(ks) == CHOOSE k \in ks : \A j \in ks : j <= k

\* main() has parsed the whole of argv without a usage error
Parsed == pc = "main" /\ main_i > Len(argv)

MaxOf(S) == CHOOSE v \in S : \A w \in S : w <= v
MinOf(S) == CHOOSE v \in S : \A w \in S : v <= w

\* the smallest value logged by the retries of the size for one cell
MinOverRetries(d, o, op) ==
  MinOf({LOG[<<r, d, o, op>>] : r \in 0..(retry - 1)})

\* C21: in a sweep with no size pinned and no backend selected, the step that
\* writes the results of a size leaves in LAST of every pair the maximum of
\* its previous value and of the minima over the retries of the five timed
\* operations of the pair; the value of the size operation is not taken; no
\* other step changes LAST and no step decreases it.
C21_LastIsMaximum ==
  [][(size = 0 /\ data = DATA_MAX) =>
       /\ pc # "write" => LAST' = LAST
       /\ \A d \in Datas, o \in Orders : LAST'[<<d, o>>] >= LAST[<<d, o>>]
       /\ pc = "write" =>
            \A d \in Datas, o \in Orders :
              LAST'[<<d, o>>] =
                MaxOf({LAST[<<d, o>>]} \cup
                      {MinOverRetries(d, o, op) :
                         op \in Operations \ {OPERATION_SIZE}})]_vars

\* C21 witness: the second size of a sweep has been written; a pair measured
\* under load at both sizes has its LAST raised by the second, and a pair
\* measured on the idle machine has a LAST below the value of its size
\* operation.
C21_Witness ==
  /\ size = 0 /\ data = DATA_MAX
  /\ pc = "grow" /\ Len(sizes) >= 2
  /\ \E d \in Datas, o \in Orders :
       /\ LAST[<<d, o>>] > 0
       /\ LAST[<<d, o>>] < MinOverRetries(d, o, OPERATION_SIZE)
  /\ \E d \in Datas, o \in Orders : LAST[<<d, o>>] > TIME_MAX_NS

\* the run is constrained: a dataset size is pinned or a backend is selected
Constrained == size # 0 \/ data # DATA_MAX

\* the backends that a run of test() measures
SelectedDatas == IF data = DATA_MAX THEN Datas ELSE {data}

\* C22: in a run with a pinned size or a selected backend, every pair that
\* the order loop reaches is allocated, never skipped, and at every size each
\* retry has run both orders of every backend of the run, whatever times were
\* measured.
C22_NoSkipWhenConstrained ==
  /\ [](Constrained /\ pc = "write" =>
          InstancesRun = (0..(retry - 1)) \X SelectedDatas \X Orders)
  /\ [][(Constrained /\ pc = "for_order" /\ the_order < ORDER_MAX) =>
          (pc' = "alloc" /\ the_order' = the_order)]_vars

\* C22 witness: a run of every backend with the size pinned has measured a
\* pair under load in its only retry, and every pair has been run.
C22_Witness ==
  /\ size # 0 /\ data = DATA_MAX
  /\ pc = "write"
  /\ \E d \in Datas, o \in Orders :
       LOG[<<0, d, o, OPERATION_REMOVE>>] > TIME_MAX_NS
  /\ InstancesRun = {0} \X Datas \X Orders

\* the keys under which elements are linked in the container
KeysOf(c) == {e[1] : e \in c}

\* the largest 32-bit key
U32Max == <<W16 - 1, W16 - 1>>

\* C23: every iteration of the change pass, at every dataset size, in dense
\* and in sparse mode, in forward and in random order, finds the key
\* SEARCH[i] live, finds the key INSERT[i] + 1 not live, computes it without
\* 32-bit wrap-around, does not abort, and leaves the_max elements linked
\* under the_max different keys.
C23_ChangeNeverCollides ==
  [][InPass(OPERATION_CHANGE) =>
       /\ SEARCH[i] \in KeysOf(container)
       /\ U32Add(INSERT[i], 1) \notin KeysOf(container)
       /\ INSERT[i] # U32Max
       /\ pc' = "operation" /\ i' = i + 1
       /\ U32Add(INSERT[i], 1) \in KeysOf(container')
       /\ SEARCH[i] \notin KeysOf(container')
       /\ Cardinality(container') = the_max
       /\ Cardinality(KeysOf(container')) = the_max]_vars

\* C23 witness: the change pass of the largest dataset, dense keys in random
\* order, has run all its iterations; every key is now a base key plus one.
C23_Witness ==
  /\ pc = "operation" /\ the_operation = OPERATION_CHANGE
  /\ the_max = MAX /\ i = the_max
  /\ sparse = 0 /\ the_order = ORDER_RANDOM
  /\ RAND0 # RAND1
  /\ KeysOf(container) = {U32Add(FORWARD[j], 1) : j \in 0..(the_max - 1)}

\* the element that iteration i of the change pass unlinks
Changed == container_search(container, SEARCH[i])

\* C24 as stated: every iteration of the change pass links the element that
\* it has unlinked from key k under k + 1, in forward and in random order.
C24_Original ==
  [][InPass(OPERATION_CHANGE) =>
       <<U32Add(SEARCH[i], 1), Changed>> \in container']_vars

\* C24 amended: iteration i of the change pass unlinks the element stored
\* under SEARCH[i] and links that same element under INSERT[i] + 1, setting
\* its key field to it. In forward order SEARCH and INSERT are both FORWARD,
\* so the element moves from k to k + 1; in random order SEARCH is RAND1 and
\* INSERT is RAND0, so it moves from RAND1[i] to RAND0[i] + 1.
C24_ReinsertedAtInsertKey ==
  [][InPass(OPERATION_CHANGE) =>
       /\ Changed # NotFound
       /\ OBJ[Changed] = SEARCH[i]
       /\ container' = (container \ {<<SEARCH[i], Changed>>})
                          \cup {<<U32Add(INSERT[i], 1), Changed>>}
       /\ OBJ' = [OBJ EXCEPT ![Changed] = U32Add(INSERT[i], 1)]
       /\ the_order = ORDER_FORWARD =>
            (SEARCH = FORWARD /\ INSERT = FORWARD)
       /\ the_order = ORDER_RANDOM => (SEARCH = RAND1 /\ INSERT = RAND0)]_vars

\* C24 witness: in a change pass in random order an element that was
\* inserted under RAND0[h] is now linked under the successor of another
\* base key.
C24_Witness ==
  /\ pc = "operation" /\ the_operation = OPERATION_CHANGE
  /\ the_order = ORDER_RANDOM /\ i > 0
  /\ \E h \in 0..(the_max - 1) :
       /\ <<OBJ[h], h>> \in container
       /\ OBJ[h] # RAND0[h]
       /\ OBJ[h] # U32Add(RAND0[h], 1)
       /\ \E j \in 0..(i - 1) : OBJ[h] = U32Add(RAND0[j], 1)

\* x < y for two 32-bit values <<hi, lo>>
U32Less(x, y) == x[1] < y[1] \/ (x[1] = y[1] /\ x[2] < y[2])

\* x + y modulo 2^32 for two 32-bit values
U32Plus(x, y) ==
  LET lo == x[2] + y[2]
  IN  <<(x[1] + y[1] + (lo \div W16)) % W16, lo % W16>>

\* x - 1 for a 32-bit value x > 0
U32Pred(x) == IF x[2] > 0 THEN <<x[1], x[2] - 1>> ELSE <<x[1] - 1, W16 - 1>>

\* 0x80000000 + i * 2 for an index i given as <<hi, lo>>, in 32-bit
\* arithmetic
DenseKeyAt(ii) == U32Plus(<<32768, 0>>, U32Mul(ii, 2))

\* 0xffffffff / max for a max of at least 2^30 given as <<hi, lo>>: the number
\* of multiples of max that fit in 32 bits
U32MaxDivAt(mm) ==
  Cardinality({q \in 1..4 : mm[1] * q + ((mm[2] * q) \div W16) < W16})

\* 0xffffffff / max * i for max and i given as <<hi, lo>>
SparseKeyAt(mm, ii) == U32Mul(ii, U32MaxDivAt(mm))

\* the last two keys that order_init(max, mode) writes to FORWARD increase
LastKeysIncrease(mm, mode) ==
  LET last == U32Pred(mm)
      prev == U32Pred(last)
  IN  IF mode # 0
      THEN U32Less(SparseKeyAt(mm, prev), SparseKeyAt(mm, last))
      ELSE U32Less(DenseKeyAt(prev), DenseKeyAt(last))

\* 2^30 and 2^30 + 1 as <<hi, lo>>
TwoTo30 == <<16384, 0>>
TwoTo30Plus1 == <<16384, 1>>

RECURSIVE ShuffleIndexes(_, _)
\* the pairs <<i, j>> of the swaps of the Fisher-Yates loop from index n on
ShuffleIndexes(n, seed) ==
  IF n < 0 THEN {}
  ELSE LET d0 == rnd(seed, n + 1)
           d1 == rnd(d0[2], n + 1)
       IN  {<<n, d0[1]>>, <<n, d1[1]>>} \cup ShuffleIndexes(n - 1, d1[2])

\* A is a permutation of B: the same keys, each once
IsPermutation(A, B) ==
  /\ DOMAIN A = DOMAIN B
  /\ {A[j] : j \in DOMAIN A} = {B[j] : j \in DOMAIN B}
  /\ \A j, k \in DOMAIN A : j # k => A[j] # A[k]

\* what order_init leaves for the dataset sizes of the run: FORWARD strictly
\* increasing, RAND0 and RAND1 permutations of it, every swap inside the
\* arrays
OrderInitStep ==
  [][pc = "order_init" =>
       /\ DOMAIN FORWARD' = 0..(the_max - 1)
       /\ \A j \in 1..(the_max - 1) : U32Less(FORWARD'[j - 1], FORWARD'[j])
       /\ IsPermutation(RAND0', FORWARD')
       /\ IsPermutation(RAND1', FORWARD')
       /\ \A p \in ShuffleIndexes(the_max - 1, SEED) :
            p[1] \in 0..(the_max - 1) /\ p[2] \in 0..p[1]]_vars

MAX_RELEASE == 10000000

\* the 32-bit value of a number below 2^31 as <<hi, lo>>
Halves(n) == <<n \div W16, n % W16>>

\* the product of the 32-bit value big and the number small, not reduced:
\* <<hi, lo>> with lo below 2^16; it fits in 32 bits when hi does
Product(big, small) ==
  LET lo == big[2] * small
  IN  <<big[1] * small + (lo \div W16), lo % W16>>

\* big * small = floor((2^32 - 1) / divisor) * divisor, for big * small the
\* quotient times the divisor: the product fits in 32 bits and what is left
\* to 2^32 - 1 is less than the divisor
IsFloorOfU32Max(big, small, divisor) ==
  LET pr == Product(big, small)
  IN  /\ pr[1] < W16
      /\ W16 - 1 - pr[1] <= divisor \div W16
      /\ (W16 - 1 - pr[1]) * W16 + (W16 - 1 - pr[2]) < divisor

\* the keys that order_init leaves in FORWARD for N = the_max
KeysAsSpecified ==
  \A j \in 0..(the_max - 1) :
    IF sparse # 0
    THEN \E q \in {U32MaxDiv(the_max)} :
           /\ IsFloorOfU32Max(q, the_max, the_max)
           /\ Product(q, j)[1] < W16
           /\ FORWARD'[j] = Product(q, j)
    ELSE /\ 32768 + ((2 * j) \div W16) < W16
         /\ FORWARD'[j] = <<32768 + ((2 * j) \div W16), (2 * j) % W16>>

\* C26: order_init leaves in FORWARD the keys floor((2^32 - 1) / N) * i
\* (sparse) or 0x80000000 + 2 * i (dense), none computed with wrap-around,
\* pairwise distinct, and no key plus one is a key or wraps around; and at
\* N = MAX of the source the sparse step is 429, so keys are more than one
\* apart, and the last key plus one is below 2^32 in both modes.
C26_KeysDistinct ==
  /\ [][pc = "order_init" =>
          /\ KeysAsSpecified
          /\ \A j, k \in 0..(the_max - 1) :
               /\ j # k => FORWARD'[j] # FORWARD'[k]
               /\ U32Add(FORWARD'[j], 1) # FORWARD'[k]
               /\ FORWARD'[j] # U32Max]_vars
  /\ [](/\ IsFloorOfU32Max(Halves(MAX_RELEASE), 429, MAX_RELEASE)
         /\ Product(Halves(MAX_RELEASE - 1), 429)[1] < W16
         /\ Product(Halves(MAX_RELEASE - 1), 429) # U32Max
         /\ 32768 + Product(Halves(MAX_RELEASE - 1), 2)[1] < W16)

\* C26 witness: order_init has generated the sparse keys of the largest
\* dataset; the last of them is above 2^31.
C26_Witness ==
  /\ pc = "for_retry" /\ the_retry = 0
  /\ the_max = MAX /\ sparse # 0
  /\ FORWARD[0] = <<0, 0>>
  /\ U32Less(<<32768, 0>>, FORWARD[the_max - 1])
  /\ \A j \in 1..(the_max - 1) : U32Less(FORWARD[j - 1], FORWARD[j])

(***************************************************************************)
(* rnd() one attempt at a time: every pass through the label loop is a     *)
(* step, for any argument and any value of SEED at the call.               *)
(***************************************************************************)
MaxRnd == 12

U64Max == <<255, 255, 255, 255, 255, 255, 255, 255>>

\* an unsigned below 2^31 as a 64-bit operand, least significant byte first
Bytes8(n) == [k \in 1..8 |-> IF k <= 4 THEN (n \div 256^(k - 1)) % 256 ELSE 0]

RECURSIVE SubFrom(_, _, _, _)
\* bytes k..9 of x - y, for x >= y
SubFrom(x, y, k, borrow) ==
  IF k > 9 THEN <<>>
  ELSE LET t == x[k] - y[k] - borrow
       IN  <<t % 256>> \o SubFrom(x, y, k + 1, IF t < 0 THEN 1 ELSE 0)

RECURSIVE DigitFrom(_, _, _, _)
\* the largest d in lo..hi with d * y <= cur, by bisection (lo * y <= cur)
DigitFrom(y, cur, lo, hi) ==
  IF lo = hi THEN lo
  ELSE LET mid == (lo + hi + 1) \div 2
       IN  IF BytesLeqFrom(U64MulSmallFrom(y, mid, 1, 0), cur, 9)
           THEN DigitFrom(y, cur, mid, hi)
           ELSE DigitFrom(y, cur, lo, mid - 1)

RECURSIVE U64DivFrom(_, _, _, _, _)
\* the 64-bit division x / y byte by byte from byte k down: rem is the
\* remainder of the bytes above k, quo the quotient bytes found; the next
\* quotient byte is the number of multiples of y that fit in rem * 256 + x[k];
\* returns <<quo, rem>>
U64DivFrom(x, y, k, rem, quo) ==
  IF k = 0 THEN <<quo, rem>>
  ELSE LET cur == <<x[k]>> \o rem
           d == DigitFrom(y, cur, 0, 255)
           left == SubFrom(cur, U64MulSmallFrom(y, d, 1, 0), 1, 0)
       IN  U64DivFrom(x, y, k - 1, SubSeq(left, 1, 8), [quo EXCEPT ![k] = d])

\* x / y for two tommy_uint64_t
U64Div(x, y) == U64DivFrom(x, y, 8, U64Zero, U64Zero)[1]

\* (unsigned) of a tommy_uint64_t keeping the low 8 bits only
Unsigned_uint8(x) == <<x[1], 0, 0, 0>>

\* (unsigned) of a tommy_uint64_t: the low 32 bits
Unsigned(x) == SubSeq(x, 1, 4)

\* r >= max for two unsigned
UnsignedGeq(r, max) == BytesLeqFrom(max, r, 4)

\* values of SEED at a call: the first one of the process, the largest one, and
\* those that the generator maps to 2^64-1, 2^64-2, 0, 2^63, 2^32 and 2^32-1
Seeds ==
  { U64Zero, U64Max,
    <<112, 39, 181, 238, 46, 198, 253, 216>>,
    <<203, 254, 22, 188, 167, 214, 101, 24>>,
    <<21, 80, 83, 33, 182, 181, 149, 153>>,
    <<21, 80, 83, 33, 182, 181, 149, 25>>,
    <<21, 80, 83, 33, 91, 222, 51, 204>>,
    <<112, 39, 181, 238, 211, 238, 155, 11>> }

\* arguments of a call: every small one, the two ceilings of the source, and
\* the largest int
RndMaxes == (1..MaxRnd) \cup {100000, MAX_RELEASE, 2147483647}

\* lines 367-383: one pass from the label loop to the goto or the return
rnd_attempt ==
  /\ pc = "rnd"
  /\ LET divider == U64Div(U64Max, Bytes8(rnd_max))
         next == LcgStep(SEED)
         r == Unsigned(U64Div(next, divider))
     IN  /\ SEED' = next
         /\ rnd_r' = r
         /\ pc' = IF UnsignedGeq(r, Unsigned(Bytes8(rnd_max)))
                  THEN "rnd" ELSE "rnd_return"
  /\ UNCHANGED <<cfg_vars, scan_vars, inst_vars, FORWARD, RAND0, RAND1,
                 result_vars, CACHE, load, slow, fault_vars, rnd_max,
                 hist_vars>>

\* rnd(max) about to be entered
InitRnd ==
  /\ pc = "rnd"
  /\ SEED \in Seeds
  /\ rnd_max \in RndMaxes
  /\ rnd_r = <<0, 0, 0, 0>>
  /\ size = 0 /\ data = DATA_MAX /\ log = 0 /\ sparse = 0
  /\ argv = <<>>
  /\ slow = 0
  /\ Globals

NextRnd == rnd_attempt

SpecRnd == InitRnd /\ [][NextRnd]_vars

(***************************************************************************)
(* C27                                                                     *)
(***************************************************************************)
\* SEED / divider of the attempt that has just stored next in SEED, 64 bits
Bucket(next, max) == U64Div(next, U64Div(U64Max, Bytes8(max)))

\* divider is floor((2^64-1) / max): divider * max + rest = 2^64-1, rest < max
DividerIsFloor(max) ==
  LET qr == U64DivFrom(U64Max, Bytes8(max), 8, U64Zero, U64Zero)
  IN  /\ U64MulAddFrom(qr[1], Bytes8(max), qr[2], 1, 0) = U64Max
      /\ qr[2] # Bytes8(max) /\ BytesLeqFrom(qr[2], Bytes8(max), 8)
      /\ max <= MaxRnd => qr[1] = U64MaxDiv(max)

\* the generator is SEED * 6364136223846793005 + 1442695040888963407 modulo
\* 2^64: 0 goes to the increment, 1 to 0x6C576FAC43FD007C, 2^64-1 to
\* 0xBBB38751AAD20222
LcgKnownAnswers ==
  /\ LcgStep(U64Zero) = LCG_C
  /\ LcgStep(<<1, 0, 0, 0, 0, 0, 0, 0>>) = <<124, 0, 253, 67, 172, 111, 87, 108>>
  /\ LcgStep(U64Max) = <<34, 2, 210, 170, 81, 135, 179, 187>>

\* one attempt of rnd(): one step of the generator, and a retry exactly when
\* the 64-bit bucket is >= max
RndAttempt ==
  pc = "rnd" /\ (pc' # pc \/ SEED' # SEED)
    => LET bucket == Bucket(SEED', rnd_max)
       IN  /\ SEED' = LcgStep(SEED)
           /\ rnd_max' = rnd_max
           /\ pc' \in {"rnd", "rnd_return"}
           /\ pc' = "rnd" <=> BytesLeqFrom(Bytes8(rnd_max), bucket, 8)
           /\ rnd_r' = SubSeq(bucket, 1, 4)
           /\ SubSeq(bucket, 5, 8) = <<0, 0, 0, 0>>
           /\ rnd_max <= MaxRnd /\ pc' = "rnd_return"
                => /\ rnd(SEED, rnd_max)[2] = SEED'
                   /\ Bytes8(rnd(SEED, rnd_max)[1]) = rnd_r' \o <<0, 0, 0, 0>>

\* C27: for every max >= 1 and every SEED rnd(max) returns r with
\* 0 <= r < max; every attempt advances SEED by one step of the generator
\* modulo 2^64; an attempt whose bucket SEED / floor((2^64-1) / max) is >= max
\* is rejected and retried; the bucket fits 32 bits, so that the truncation
\* to unsigned never makes an out-of-range bucket an accepted value
C27_RndInRange ==
  /\ [](/\ rnd_max >= 1
        /\ DividerIsFloor(rnd_max)
        /\ LcgKnownAnswers
        /\ pc = "rnd_return"
             => /\ rnd_r # Unsigned(Bytes8(rnd_max))
                /\ BytesLeqFrom(rnd_r, Unsigned(Bytes8(rnd_max)), 4))
  /\ [][RndAttempt]_vars

\* C27 witness: an attempt on the largest dataset size of the source drew
\* the bucket max itself, and rnd() is at the label loop again
C27_Witness ==
  /\ pc = "rnd"
  /\ rnd_max = MAX_RELEASE
  /\ rnd_r = Unsigned(Bytes8(MAX_RELEASE))
  /\ SEED = U64Max

(***************************************************************************)
(* C28                                                                     *)
(***************************************************************************)
\* an element is linked under the key that the iteration looks up and holds
\* that key
LookupMatches ==
  \E e \in container : e[1] = LookupKey(i) /\ OBJ[e[2]] = LookupKey(i)

\* the iteration wrote a new key into an element that held another key than
\* the one looked up
RekeyedUnread ==
  \E h \in DOMAIN OBJ : OBJ'[h] # OBJ[h] /\ OBJ[h] # ChangeOldKey(i)

\* C28: every hit, remove and change operation that locates an element reads
\* the stored key of the element and compares it with the expected key, and
\* aborts on a mismatch: an iteration of the hit or the remove pass goes on
\* only with an element that holds the key looked up, and no iteration of the
\* change pass goes on after it was given an element that holds another key.
C28_Original ==
  [][/\ (InPass(OPERATION_HIT) \/ InPass(OPERATION_REMOVE)) /\ i' = i + 1
          => LookupMatches
     /\ InPass(OPERATION_CHANGE) /\ RekeyedUnread => pc' = "aborted"]_vars

\* C28 witness: the change pass of an rbtree instance was given the element
\* of another key in its first iteration, wrote the new key into it and linked
\* it: the key looked up is still linked, the key of the element given is
\* not, and the pass goes on.
C28_Witness ==
  /\ pc = "operation" /\ the_operation = OPERATION_CHANGE
  /\ the_data = DATA_TREE
  /\ i = 1
  /\ faults = 1 /\ timer_failed = "no"
  /\ container_search(container, ChangeOldKey(0)) # NotFound
  /\ \E h \in DOMAIN OBJ :
       /\ OBJ[h] = ChangeNewKey(0)
       /\ <<ChangeNewKey(0), h>> \in container
       /\ h # container_search(container, ChangeOldKey(0))
  /\ Cardinality(container) = the_max

(***************************************************************************)
(* C29                                                                     *)
(***************************************************************************)
\* the step is a sweep of cache_clear
Swept == CACHE' # CACHE

\* the step enters the insert pass of an instance
InsertPassEntered == pc # "operation" /\ pc' = "operation"

\* C29: cache_clear is performed before the first timed operation: in every
\* dataset instance, for every retry, backend and order, it completes after
\* the teardown of the previous instance and before the insert pass starts
\* its clock, and it is never executed between two timed operations of the
\* same instance.  The sweeps are counted by CACHE: one for each instance
\* allocated, none for a skipped one.
C29_SweepBeforeInsert ==
  /\ [](CACHE = (IF pc = "cache_clear" THEN allocs - 1 ELSE allocs) % 256)
  /\ [][/\ Swept
             => /\ pc = "cache_clear" /\ pc' = "operation"
                /\ CACHE' = (CACHE + 1) % 256
                /\ allocs = frees + 1
                /\ passes = <<>> /\ passes' = <<>>
                /\ Compiled(the_data) => allocated /\ container = {}
                /\ the_operation' = OPERATION_INSERT /\ i' = 0
                /\ LOG' = LOG /\ container' = container
        /\ InsertPassEntered => Swept
        /\ pc = "operation" => ~Swept]_vars

\* C29 witness: the sweep of the second instance of a run is over, after the
\* teardown of the first instance, and its insert pass has not started
C29_Witness ==
  /\ pc = "operation" /\ the_operation = OPERATION_INSERT /\ i = 0
  /\ passes = <<>>
  /\ allocs = 2 /\ frees = 1
  /\ CACHE = 2
  /\ allocated /\ container = {}

(***************************************************************************)
(* C30                                                                     *)
(***************************************************************************)
\* the passes recorded are the six operations, each once, in their order
SixOperations ==
  /\ Len(passes) = OPERATION_MAX
  /\ \A k \in 1..OPERATION_MAX : passes[k][1] = OperationSequence[k]

\* no container and no element storage is allocated
NothingAllocated == ~allocated /\ container = {} /\ OBJ = NoArray

\* C30: test_alloc and test_free strictly alternate over the whole run: at
\* every moment at most one container and one element storage are allocated;
\* every test_alloc is followed by exactly one sequence of the six operations
\* and then by its test_free, before any other test_alloc; and nothing is left
\* allocated when the run terminates normally.
C30_AllocFreeAlternate ==
  /\ [](/\ allocs \in {frees, frees + 1}
        /\ (allocs = frees + 1) <=> InInstance
        /\ ~InInstance => NothingAllocated
        /\ InInstance /\ Compiled(the_data) => allocated
        /\ \A n \in instances : n[4] = OPERATION_MAX
        /\ pc = "done" => allocs = frees /\ NothingAllocated)
  /\ [][/\ allocs' # allocs
             => /\ allocs = frees /\ allocs' = allocs + 1 /\ frees' = frees
                /\ NothingAllocated
                /\ passes' = <<>>
        /\ frees' # frees
             => /\ allocs = frees + 1 /\ frees' = frees + 1 /\ allocs' = allocs
                /\ SixOperations
                /\ NothingAllocated'
        /\ (allocated' # allocated \/ (OBJ = NoArray) # (OBJ' = NoArray))
             => allocs' # allocs \/ frees' # frees]_vars

\* C30 witness: a run of more than one instance has returned: as many
\* teardowns as allocations, and nothing allocated
C30_Witness ==
  /\ pc = "done"
  /\ allocs = frees /\ allocs >= 2 * ORDER_MAX
  /\ Cardinality(instances) >= 2
  /\ NothingAllocated

(***************************************************************************)
(* C31                                                                     *)
(***************************************************************************)
\* the run is a full sweep (no size pinned, no backend selected) or -l was
\* given
Logged == (size = 0 /\ data = DATA_MAX) \/ log # 0

\* no result file exists and LAST is as the process started with it
NothingRecorded ==
  /\ \A c \in DOMAIN files : files[c] = <<>>
  /\ \A c \in DOMAIN LAST : LAST[c] = 0

\* C31 as stated: the result files are created and appended to exactly when
\* the run is a full sweep or -l was given; in every other run no result file
\* is opened or modified and LAST is unchanged for the whole run.
C31_Original ==
  /\ pc = "done" =>
       \A c \in DOMAIN files : Logged <=> Len(files[c]) >= 2
  /\ ~Logged => NothingRecorded

\* C31 amended: the result files are created exactly when the run is a full
\* sweep or -l was given, and such a run appends one row to every file for
\* each dataset size it measures: none when the pinned size is above MAX, the
\* files then hold their header only.  In every other run no result file is
\* opened or modified and LAST is unchanged for the whole run.
C31_LoggedExactly ==
  /\ [](/\ pc # "test" => (the_log <=> Logged)
        /\ \A c \in DOMAIN files :
             /\ pc # "test" => (Len(files[c]) >= 1 <=> Logged)
             /\ Logged /\ pc = "done" =>
                  /\ Len(files[c]) = Len(sizes) + 1
                  /\ sizes = <<>> <=> size > MAX
        /\ ~Logged => NothingRecorded)
  /\ [][/\ files' # files
             => /\ Logged
                /\ \/ pc = "test" /\ \A c \in DOMAIN files : files'[c] = <<HeaderRow>>
                   \/ /\ pc = "write"
                      /\ \A c \in DOMAIN files :
                           /\ Len(files'[c]) = Len(files[c]) + 1
                           /\ SubSeq(files'[c], 1, Len(files[c])) = files[c]
                           /\ files'[c][Len(files'[c])][1] = the_max
        /\ LAST' # LAST => Logged /\ pc = "write"]_vars

\* C31 witness: test(MAX + 1, ..., log, ...) with -l has returned: the files
\* were created, and no row was appended to them
C31_Witness ==
  /\ pc = "done"
  /\ log # 0 /\ size > MAX
  /\ the_log
  /\ sizes = <<>>
  /\ \A c \in DOMAIN files : files[c] = <<HeaderRow>>

(***************************************************************************)
(* C32                                                                     *)
(***************************************************************************)
\* the instance of the pair (d, o) was run and torn down in retry r of the
\* dataset size in progress
Measured(r, d, o) ==
  \E n \in instances : n[1] = r /\ n[2] = d /\ n[3] = o

\* the retries of the dataset size in progress are over
RetriesOver == pc \in {"order_done", "write"}

\* C32: within one dataset size the skip decision of a pair (backend, order)
\* is the same in every retry: LAST is not modified between the first and the
\* last retry of a size, so a pair is measured in all the retries of the size
\* or in none, and the minimum is never taken over a mix of measured and
\* unmeasured (zero) retry cells.
C32_SameDecisionInEveryRetry ==
  /\ [](RetriesOver =>
          /\ the_retry = retry
          /\ \A d \in Datas, o \in Orders :
               /\ \A r \in 0..(retry - 1) : Measured(r, d, o) <=> Measured(0, d, o)
               /\ Measured(0, d, o) <=> ~(NotSelected(d) \/ Degenerated(d, o))
               /\ \A r \in 0..(retry - 1), op \in Operations :
                    IF Measured(0, d, o) /\ Compiled(d)
                    THEN LOG[<<r, d, o, op>>] # 0
                    ELSE LOG[<<r, d, o, op>>] = 0)
  /\ [][LAST' # LAST => pc = "write" /\ the_retry = retry]_vars

\* C32 witness: the two retries of a dataset size of the sweep are over, with
\* one pair skipped in both of them and another pair measured in both
C32_Witness ==
  /\ pc = "write"
  /\ retry = 2
  /\ \E d \in Datas, o \in Orders :
       /\ Degenerated(d, o)
       /\ ~Measured(0, d, o) /\ ~Measured(1, d, o)
  /\ \E d \in Datas, o \in Orders :
       /\ Compiled(d)
       /\ Measured(0, d, o) /\ Measured(1, d, o)

(***************************************************************************)
(* C33                                                                     *)
(***************************************************************************)
\* the pair (d, o) has no measure at the dataset size in progress: it was
\* skipped as degenerated, its backend is not selected or is not compiled in
Unmeasured(d, o) ==
  NotSelected(d) \/ Degenerated(d, o) \/ ~Compiled(d)

\* the value of backend d in the last row of the file of (o, op)
LastCell(file, d) == file[Len(file)][2][d]

\* C33: LOG is cleared at the start of every dataset size, so in the row
\* written for a size every cell (backend, order, operation) that was not
\* measured at that size (pair skipped as degenerated, backend not selected,
\* backend not compiled in) holds 0, never a value left from an earlier size;
\* and a value of 0 never raises LAST.
C33_UnmeasuredCellsAreZero ==
  [][/\ pc = "while" /\ pc' = "order_init"
          => \A c \in DOMAIN LOG : LOG'[c] = 0
     /\ pc = "write" /\ the_log
          => \A d \in Datas, o \in Orders :
               /\ Unmeasured(d, o)
                    => /\ ~Measured(0, d, o) \/ ~Compiled(d)
                       /\ \A op \in Operations :
                            LastCell(files'[<<o, op>>], d) = 0
                       /\ LAST'[<<d, o>>] = LAST[<<d, o>>]
               /\ (\A op \in Operations \ {OPERATION_SIZE} :
                      MinOverRetries(d, o, op) = 0)
                    => LAST'[<<d, o>>] = LAST[<<d, o>>]]_vars

\* C33 witness: the row of a size was written in which a pair skipped as
\* degenerated has the value 0, below a row in which it has a value above
\* TIME_MAX_NS, and its LAST is still that of the earlier size
C33_Witness ==
  /\ pc = "grow" /\ the_log
  /\ \E d \in Datas, o \in Orders :
       LET file == files[<<o, OPERATION_REMOVE>>]
       IN  /\ Compiled(d)
           /\ Len(file) >= 3
           /\ LastCell(file, d) = 0
           /\ file[Len(file) - 1][2][d] > TIME_MAX_NS
           /\ LAST[<<d, o>>] > TIME_MAX_NS
           /\ \A r \in Retries : LOG[<<r, d, o, OPERATION_REMOVE>>] = 0

====
